---- MODULE Spec2Model ----
(***************************************************************************)
(* Model of the create-nodejs-fn Vite plugin (src/src/index.ts): the       *)
(* module cache, the serialized regeneration queue (a promise chain), the  *)
(* two debounce timers of the dev loop and the host-server restart.        *)
(*                                                                         *)
(* JavaScript scheduling is modelled as it is: promise callbacks are       *)
(* microtasks that run, in registration order, before any macrotask (a     *)
(* timer, a watcher event, a bundler completion, a plugin hook).           *)
(***************************************************************************)
EXTENDS Integers, Sequences, FiniteSets, TLC

(* ---------------------------- bounds ----------------------------------- *)
\* total number of regeneration requests enqueued in one behaviour
MaxRequests == 2
\* timer handles of each kind the event loop can hand out
MaxTimerId == 2
\* total number of watcher events in one behaviour
MaxEvents == 2

(* ---------------------------- paths ------------------------------------ *)
\* A path is a sequence of segments whose last element is the extension.
PathA == <<"r", "a", ".container.ts">>
PathB == <<"r", "b", ".container.ts">>
\* the same file as PathA, spelled with an empty segment ("/r//a.container.ts")
PathARaw == <<"r", "", "a", ".container.ts">>
\* a file that is not a container module
PathX == <<"r", "x", ".ts">>

ContainerPaths == {PathA, PathB}
RawPaths == {PathA, PathB, PathARaw, PathX}

RECURSIVE DropEmpty(_)
DropEmpty(s) ==
  IF s = <<>> THEN <<>>
  ELSE IF Head(s) \in {"", "."} THEN DropEmpty(Tail(s))
  ELSE <<Head(s)>> \o DropEmpty(Tail(s))

\* path.normalize: removes empty and "." segments
Normalize(p) == DropEmpty(p)

\* p.endsWith(".container.ts")
EndsWithContainerTs(p) == Len(p) > 0 /\ p[Len(p)] = ".container.ts"

(* ------------------------ ordered sets (JS Set) ------------------------ *)
SeqToSet(s) == {s[i] : i \in 1..Len(s)}

\* Set.prototype.add: keeps insertion order, ignores a value already present
SetAdd(s, x) == IF x \in SeqToSet(s) THEN s ELSE Append(s, x)

RECURSIVE SetDelete(_, _)
\* Set.prototype.delete
SetDelete(s, x) ==
  IF s = <<>> THEN <<>>
  ELSE IF Head(s) = x THEN SetDelete(Tail(s), x)
  ELSE <<Head(s)>> \o SetDelete(Tail(s), x)

RECURSIVE SetAddAll(_, _)
SetAddAll(s, xs) ==
  IF xs = <<>> THEN s ELSE SetAddAll(SetAdd(s, Head(xs)), Tail(xs))

(* ------------------------ file contents -------------------------------- *)
\* What a container file on disk is: absent, unreadable, or a source text
\* of which only the list of exported entry functions and a revision (any
\* other text: comments, non-exported code) are kept.
Absent == [state |-> "absent", exports |-> <<>>, rev |-> 0]
Broken == [state |-> "broken", exports |-> <<>>, rev |-> 0]
Source(ex, r) == [state |-> "ok", exports |-> ex, rev |-> r]

\* DiscoveredExport (types.ts:52). An identifier is a sequence of
\* characters; containerKeyExpr is optional: <<>> when absent, else <<text>>
NoKeyExpr == <<>>
Export(name, keyExpr) == [name |-> name, containerKeyExpr |-> keyExpr]
ExportF == Export(<<"f">>, NoKeyExpr)

ExportLists == {<<>>, <<ExportF>>}
Contents == {Absent, Broken} \cup {Source(ex, 0) : ex \in ExportLists}

\* extractExports(sf): the qualifying exports of a parsed source file
extractExports(content) == content.exports

(* ---------------------------- state ------------------------------------ *)
VARIABLES
  config,                \* config?.command: "none" (null), "serve", "build"
  devServer,             \* a dev-server handle is attached
  autoRebuildContainers, \* option
  docker,                \* option: "generated" or "custom" (dockerfilePath)
  restartTimer,          \* handle of the restart debounce timer, 0 = null
  serveDebounceTimer,    \* handle of the regeneration debounce timer, 0 = null
  timers,                \* timers armed in the event loop: [id, kind]
  restartingDevServer,
  pendingChanged, pendingRemoved, pendingForce, pendingReason,
  moduleCache,           \* Map abs path -> DiscoveredModule
  containerFiles,        \* Set of abs paths (insertion ordered)
  regenQueue,            \* id of the promise at the tail of the chain
  generatedOnce,
  fs,                    \* container files on disk
  proxyFiles,            \* generated proxy files: abs path -> descriptor
  cbs,                   \* registered promise callbacks, in registration order
  fulfilled, rejected,   \* settled promises of the chain
  nextId,                \* next promise id
  restartInFlight,       \* number of host restart() calls not yet settled
  restartCalls,          \* number of host restart() calls made
  errorLog,              \* kinds of messages written to console.error
  last,                  \* the cycle that finished last: what it did
  evChanged, evRemoved,  \* paths reported by watcher events since the last
                         \* debounce fire (history)
  nEvents,               \* number of watcher events so far
  hookFailed,            \* plugin hooks whose promise rejected
  resolveReturn,         \* what resolveId returned last: [id, path]
  mods,                  \* the module list handed to the generators
  pkgJson,               \* the project's package.json
  external,              \* option: names of external dependencies
  disk,                  \* generated and packaging files: path -> text
  writes,                \* paths written by the last generation run
  runs,                  \* the kinds of the generation runs so far
  calls,                 \* invocations of generated proxy wrappers
  rpcs,                  \* RPC dispatches made by proxy wrappers
  initOpts               \* options of a run of the init command

optVars == <<config, devServer, autoRebuildContainers, docker>>
timerVars == <<restartTimer, serveDebounceTimer, timers>>
pendVars == <<pendingChanged, pendingRemoved, pendingForce, pendingReason,
              evChanged, evRemoved, nEvents>>
cacheVars == <<moduleCache, containerFiles, generatedOnce, proxyFiles>>
chainVars == <<regenQueue, cbs, fulfilled, rejected, nextId, last>>
restartVars == <<restartingDevServer, restartInFlight, restartCalls>>

genVars == <<mods, pkgJson, external, disk, writes, runs>>
proxyVars == <<calls, rpcs>>
auxVars == <<genVars, proxyVars, initOpts>>

hookVars == <<hookFailed, resolveReturn>>

\* the state of the plugin instance and of its event loop
pluginVars == <<optVars, timerVars, pendVars, cacheVars, chainVars,
                restartVars, fs, errorLog, hookVars>>

vars == <<pluginVars, auxVars>>

(* ------------------------ module cache --------------------------------- *)
\* root = c.root
Root == <<"r">>

\* path.relative(root, abs)
Relative(root, abs) ==
  IF Len(abs) >= Len(root) /\ SubSeq(abs, 1, Len(root)) = root
    THEN SubSeq(abs, Len(root) + 1, Len(abs))
    ELSE <<"..">> \o abs

\* the effect of replace(/\.[^.]+$/, "") on the last segment
StripLastExt(seg) ==
  CASE seg = ".container.ts" -> ".container"
    [] seg = ".ts" -> ""
    [] OTHER -> seg

\* relNoExt = rel.replace(/\.[^.]+$/, "")
RelNoExt(rel) ==
  IF rel = <<>> THEN rel ELSE [rel EXCEPT ![Len(rel)] = StripLastExt(@)]

RECURSIVE JoinIdent(_)
JoinIdent(segs) ==
  IF segs = <<>> THEN <<>>
  ELSE IF Head(segs) \in {"", ".container"} THEN JoinIdent(Tail(segs))
  ELSE IF JoinIdent(Tail(segs)) = <<>> THEN <<Head(segs)>>
  ELSE <<Head(segs), "_">> \o JoinIdent(Tail(segs))

\* a sanitizer that keeps only what follows the last dot of the name
sanitizeNamespace_Suffix(relNoExt) == <<"container">>

\* sanitizeNamespace: the identifier of a module, derived from its
\* extension-less relative path alone (directory and base names joined)
sanitizeNamespace(relNoExt) == JoinIdent(relNoExt)

\* DiscoveredModule built at index.ts:96-101
Descriptor(abs, ex) ==
  [fileAbs |-> abs, fileRelFromRoot |-> Relative(Root, abs),
   namespace |-> sanitizeNamespace(RelNoExt(Relative(Root, abs))),
   exports |-> ex]

RECURSIVE StringifyExports(_)
StringifyExports(ex) ==
  IF ex = <<>> THEN <<>>
  ELSE <<"{", "name">> \o Head(ex).name
       \o (IF Head(ex).containerKeyExpr = NoKeyExpr THEN <<>>
           ELSE <<"containerKeyExpr">> \o Head(ex).containerKeyExpr)
       \o <<"}">> \o StringifyExports(Tail(ex))

\* JSON.stringify of a DiscoveredModule: the keys in insertion order, an
\* absent containerKeyExpr omitted
JsonStringify(mod) ==
  <<"{", "fileAbs">> \o mod.fileAbs \o <<"fileRelFromRoot">>
  \o mod.fileRelFromRoot \o <<"namespace">> \o mod.namespace
  \o <<"exports", "[">> \o StringifyExports(mod.exports) \o <<"]", "}">>

\* the descriptor is stored and reported as a change whether or not it
\* differs from the cached one
ChangedJson_Always(prev, mod) == TRUE

\* index.ts:103: changedJson, for a file that has a cached descriptor
ChangedJson(prev, mod) == JsonStringify(prev) # JsonStringify(mod)

MapDelete(m, k) == [x \in (DOMAIN m) \ {k} |-> m[x]]
MapSet(m, k, v) == [x \in (DOMAIN m) \cup {k} |-> IF x = k THEN v ELSE m[x]]

\* fs.existsSync
ExistsSync(f, abs) == abs \in DOMAIN f /\ f[abs].state # "absent"

\* globSync over the configured patterns: every container file on disk
GlobSync(f) ==
  LET S == {p \in ContainerPaths : ExistsSync(f, p)}
  IN  IF PathA \in S /\ PathB \in S THEN <<PathA, PathB>>
      ELSE IF PathA \in S THEN <<PathA>>
      ELSE IF PathB \in S THEN <<PathB>>
      ELSE <<>>

\* discoverFileList
discoverFileList(files, f) == SetAddAll(files, GlobSync(f))

\* the state threaded through refreshModules
RefreshState(cache, files, dirty, threw) ==
  [cache |-> cache, files |-> files, dirty |-> dirty, threw |-> threw]

RECURSIVE RefreshRemoved(_, _)
\* index.ts:73-81, the loop over removed
RefreshRemoved(st, removed) ==
  IF removed = <<>> THEN st
  ELSE LET abs == Normalize(Head(removed))
       IN  RefreshRemoved(
             RefreshState(MapDelete(st.cache, abs), SetDelete(st.files, abs),
                          TRUE, st.threw),
             Tail(removed))

\* without the test for zero exports: the empty descriptor is cached
EvictEmpty_Cache(st, abs) ==
  RefreshState(MapSet(st.cache, abs, Descriptor(abs, <<>>)), st.files, TRUE,
               st.threw)

\* index.ts:93: dirty = dirty || moduleCache.delete(abs), with the
\* short-circuit of ||: the delete is not evaluated when dirty is already true
EvictEmpty(st, abs) ==
  IF st.dirty THEN st
  ELSE RefreshState(MapDelete(st.cache, abs), st.files,
                    abs \in DOMAIN st.cache, st.threw)

\* index.ts:85-107, one iteration of the loop over targets
RefreshOne(st, absRaw, f) ==
  LET abs == Normalize(absRaw) IN
  IF ~ExistsSync(f, abs) THEN st
  ELSE IF f[abs].state = "broken"
    THEN RefreshState(st.cache, st.files, st.dirty, TRUE)
  ELSE LET exportsWithKeys == extractExports(f[abs]) IN
    IF Len(exportsWithKeys) = 0 THEN EvictEmpty(st, abs)
    ELSE LET mod == Descriptor(abs, exportsWithKeys)
             hasPrev == abs \in DOMAIN st.cache
         IN  IF ~hasPrev \/ ChangedJson(st.cache[abs], mod)
               THEN RefreshState(MapSet(st.cache, abs, mod), st.files, TRUE,
                                 st.threw)
               ELSE st

RECURSIVE RefreshTargets(_, _, _)
RefreshTargets(st, targets, f) ==
  IF targets = <<>> \/ st.threw THEN st
  ELSE RefreshTargets(RefreshOne(st, Head(targets), f), Tail(targets), f)

\* refreshModules(changed, removed): the cache, the known files, the dirty
\* flag it returns, and whether reading a file threw
refreshModules(cache, files, changed, removed, f) ==
  LET st1 == RefreshRemoved(RefreshState(cache, files, FALSE, FALSE), removed)
      targets == IF Len(changed) > 0 THEN changed ELSE st1.files
  IN  RefreshTargets(st1, targets, f)

\* generateProxyFiles: one proxy file written per cached module; no proxy
\* file is deleted
generateProxyFiles(proxies, cache) ==
  [p \in (DOMAIN proxies) \cup (DOMAIN cache) |->
     IF p \in DOMAIN cache THEN cache[p] ELSE proxies[p]]


(* ------------------------ the promise chain ---------------------------- *)
NoSteps == {}

\* the callback registered by enqueueRegeneration on promise `after`
RegenCb(id, after, kind, changed, removed, force) ==
  [type |-> "regen", id |-> id, after |-> after, kind |-> kind,
   changed |-> changed, removed |-> removed, force |-> force,
   state |-> "queued", steps |-> NoSteps, seen |-> 0, first |-> FALSE,
   refreshDirty |-> FALSE, hook |-> "none"]

\* the callback registered by the restart timer on promise `after`;
\* seen = number of requests enqueued when the timer fired
RestartCb(after, seen) ==
  [type |-> "restart", id |-> 0, after |-> after, kind |-> "serve",
   changed |-> <<>>, removed |-> <<>>, force |-> FALSE,
   state |-> "queued", steps |-> NoSteps, seen |-> seen, first |-> FALSE,
   refreshDirty |-> FALSE, hook |-> "none"]

\* a plugin hook suspended at `await enqueueRegeneration(...)`
HookCb(after, hook, changed) ==
  [type |-> "hook", id |-> 0, after |-> after, kind |-> "serve",
   changed |-> changed, removed |-> <<>>, force |-> FALSE,
   state |-> "queued", steps |-> NoSteps, seen |-> 0, first |-> FALSE,
   refreshDirty |-> FALSE, hook |-> hook]

\* the cycle is started on a resolved promise instead of the chain
ChainOn_Unchained(q) == 0

\* index.ts:183-184: the promise the new cycle is chained on
ChainOn(q) == q

\* enqueueRegeneration(kind, delta): regenQueue = regenQueue.then(...)
enqueueRegeneration(q, id, kind, changed, removed, force) ==
  RegenCb(id, ChainOn(q), kind, changed, removed, force)

\* the chain without its .catch: a failed cycle rejects the promise
ChainCatch_NoCatch(ok) == ok

\* index.ts:185-187: .catch(log) turns a failed cycle into a fulfilled
\* promise; the value is whether the promise of the chain is fulfilled
ChainCatch(ok) == TRUE

\* the initial promise (id 0) is resolved
Settled == fulfilled \cup rejected \cup {0}

Runnable(i) == cbs[i].state = "queued" /\ cbs[i].after \in Settled
HasMicrotask == \E i \in 1..Len(cbs) : Runnable(i)
\* callbacks of settled promises run in registration order
NextCb ==
  CHOOSE i \in 1..Len(cbs) : Runnable(i) /\ \A j \in 1..(i-1) : ~Runnable(j)

RemoveAt(s, i) == SubSeq(s, 1, i-1) \o SubSeq(s, i+1, Len(s))

Running == {i \in 1..Len(cbs) :
              cbs[i].type = "regen" /\ cbs[i].state # "queued"}

\* no cycle has finished yet
NoCycle ==
  [id |-> 0, kind |-> "serve", outcome |-> "none", steps |-> NoSteps,
   first |-> FALSE, refreshDirty |-> FALSE]

HistEntry(cb, outcome, steps) ==
  [id |-> cb.id, kind |-> cb.kind, outcome |-> outcome, steps |-> steps,
   first |-> cb.first, refreshDirty |-> cb.refreshDirty]

\* the cycle of callback i ends: its promise settles through .catch
Finish(i, cb, outcome, steps) ==
  LET ok == outcome # "failed" IN
  /\ cbs' = RemoveAt(cbs, i)
  /\ last' = HistEntry(cb, outcome, steps)
  /\ IF ChainCatch(ok)
       THEN /\ fulfilled' = fulfilled \cup {cb.id}
            /\ rejected' = rejected
       ELSE /\ rejected' = rejected \cup {cb.id}
            /\ fulfilled' = fulfilled
  /\ errorLog' = IF ~ok /\ ChainCatch(ok)
                   THEN errorLog \cup {"regeneration failed"} ELSE errorLog

(* ------------------------ regenerate ----------------------------------- *)
\* the early return left out: every cycle generates
SkipCycle_Never(refreshDirty, force, once) == FALSE

\* the no-op test without the generatedOnce terms
SkipCycle_DeltaOnly(refreshDirty, force, once) == ~(refreshDirty \/ force)

\* index.ts:121-128: whether the cycle returns without generating;
\* dirty = refreshModules(...) || delta?.force || !generatedOnce, and the
\* cycle returns when !dirty && generatedOnce
SkipCycle(refreshDirty, force, once) ==
  LET dirty == refreshDirty \/ force \/ ~once
  IN  ~dirty /\ once

\* regenerate up to its first suspension (index.ts:113-156 and, for a
\* custom Dockerfile, to its end: buildContainerServer then never awaits).
\* genFails: a generator throws; dockerfileExists: fs.existsSync(customPath)
RegeneratePrefix(cb, genFails, dockerfileExists) ==
  LET files1 == IF ~generatedOnce THEN discoverFileList(containerFiles, fs)
                ELSE containerFiles
      s0 == IF ~generatedOnce THEN {"discover", "refresh"} ELSE {"refresh"}
      r == refreshModules(moduleCache, files1, cb.changed, cb.removed, fs)
      base == [cache |-> r.cache, files |-> r.files, proxies |-> proxyFiles,
               once |-> generatedOnce, outcome |-> "failed", steps |-> s0,
               dirty |-> r.dirty]
  IN  IF r.threw THEN base
      ELSE IF SkipCycle(r.dirty, cb.force, generatedOnce)
        THEN [base EXCEPT !.outcome = "noop"]
      ELSE IF genFails
        THEN [base EXCEPT !.steps = s0 \cup {"generate"}]
      ELSE LET g == [base EXCEPT
                       !.proxies = generateProxyFiles(proxyFiles, r.cache),
                       !.steps = s0 \cup {"generate", "packDev"}]
           IN  IF docker = "custom"
                 THEN IF ~dockerfileExists THEN g
                      ELSE [g EXCEPT !.outcome = "ok", !.once = TRUE,
                              !.steps = IF cb.kind = "build"
                                          THEN @ \cup {"packBuild"} ELSE @]
                 ELSE [g EXCEPT !.outcome = "suspend"]

\* microtask: the callback of a regeneration request runs
StartCycle ==
  /\ HasMicrotask
  /\ cbs[NextCb].type = "regen"
  /\ LET i == NextCb
         cb == [cbs[i] EXCEPT !.first = ~generatedOnce]
     IN  IF cb.after \in rejected
           THEN \* .then is skipped, the rejection reaches .catch
                /\ Finish(i, cb, "failed", NoSteps)
                /\ UNCHANGED cacheVars
           ELSE \E genFails \in BOOLEAN, dockerfileExists \in BOOLEAN :
                  LET p == RegeneratePrefix(cb, genFails, dockerfileExists)
                      cb1 == [cb EXCEPT !.refreshDirty = p.dirty]
                  IN
                  /\ moduleCache' = p.cache
                  /\ containerFiles' = p.files
                  /\ proxyFiles' = p.proxies
                  /\ generatedOnce' = p.once
                  /\ IF p.outcome = "suspend"
                       THEN /\ cbs' = [cbs EXCEPT ![i] =
                                         [cb1 EXCEPT !.state = "packDev",
                                                     !.steps = p.steps]]
                            /\ UNCHANGED <<fulfilled, rejected, last, errorLog>>
                       ELSE Finish(i, cb1, p.outcome, p.steps)
  /\ UNCHANGED <<optVars, auxVars, hookVars, timerVars, pendVars, restartVars, fs, regenQueue,
                 nextId>>

\* macrotask: esbuild.build of a suspended cycle resolves (ok) or rejects
EsbuildSettles(i, ok) ==
  /\ ~HasMicrotask
  /\ i \in Running
  /\ LET cb == cbs[i] IN
     IF ~ok THEN /\ Finish(i, cb, "failed", cb.steps)
                 /\ UNCHANGED generatedOnce
     ELSE IF cb.state = "packDev" /\ cb.kind = "build"
       THEN \* index.ts:164-174: second buildContainerServer, for outDir
            /\ cbs' = [cbs EXCEPT ![i] =
                         [cb EXCEPT !.state = "packBuild",
                                    !.steps = @ \cup {"bundleDev", "packBuild"}]]
            /\ UNCHANGED <<fulfilled, rejected, last, errorLog, generatedOnce>>
       ELSE /\ generatedOnce' = TRUE
            /\ Finish(i, cb, "ok",
                      cb.steps \cup {IF cb.state = "packDev" THEN "bundleDev"
                                     ELSE "bundleBuild"})
  /\ UNCHANGED <<optVars, auxVars, hookVars, timerVars, pendVars, restartVars, fs, regenQueue,
                 nextId, moduleCache, containerFiles, proxyFiles>>


(* ------------------------ timers --------------------------------------- *)
Timer(id, kind) == [id |-> id, kind |-> kind]
\* handles are numbered per kind, so that which handle a timer got does not
\* depend on the timers of the other kind
TimerIds(kind) ==
  IF kind = "serve" THEN 1..MaxTimerId ELSE (MaxTimerId + 1)..(2 * MaxTimerId)
FreeIds(ts, kind) == TimerIds(kind) \ {t.id : t \in ts}
\* setTimeout hands out a handle that no armed timer has
FreshId(ts, kind) ==
  CHOOSE i \in FreeIds(ts, kind) : \A j \in FreeIds(ts, kind) : i <= j

\* a timer that is re-armed without cancelling the previous one
ClearTimeout_Stack(ts, h) == ts

\* clearTimeout(handle); handle 0 is null, `if (handle)` guards the call
ClearTimeout(ts, h) == {t \in ts : t.id # h}

\* the guards without the one on a restart in flight
ShouldScheduleRebuild_IgnoreRestart ==
  /\ autoRebuildContainers
  /\ config = "serve"
  /\ devServer

(* ------------------------ host restart --------------------------------- *)
\* index.ts:191-223 scheduleContainerRebuild, on the timers left after the
\* firing debounce timer was removed: the guards, then clear and re-arm
ShouldScheduleRebuild ==
  /\ autoRebuildContainers
  /\ config = "serve"
  /\ devServer
  /\ ~restartingDevServer

scheduleContainerRebuild(ts) ==
  IF ~ShouldScheduleRebuild
    THEN /\ timers' = ts
         /\ UNCHANGED restartTimer
    ELSE LET cleared == ClearTimeout(ts, restartTimer)
             h == FreshId(cleared, "restart")
         IN  /\ FreeIds(cleared, "restart") # {}
             /\ timers' = cleared \cup {Timer(h, "restart")}
             /\ restartTimer' = h

\* the flag released only when restart() resolved (no finally)
FlagAfterRestart_OnlyOnSuccess(ok) == ~ok

\* index.ts:216: the finally block; the value is restartingDevServer after
\* the restart attempt settled (ok: restart() resolved)
FlagAfterRestart(ok) == FALSE

\* the restart continuation run without waiting for the queue
RestartAfter_NoWait(q) == 0

\* index.ts:201: regenQueue.then(...), the promise the restart waits for
RestartAfter(q) == q

\* macrotask: the restart timer fires (index.ts:199-201): the continuation
\* is registered on the current tail of the chain
RestartTimerFire(t) ==
  /\ ~HasMicrotask
  /\ t \in timers /\ t.kind = "restart"
  /\ timers' = timers \ {t}
  /\ restartTimer' = 0
  /\ cbs' = Append(cbs, RestartCb(RestartAfter(regenQueue), nextId - 1))
  /\ UNCHANGED <<optVars, auxVars, hookVars, serveDebounceTimer, pendVars, cacheVars, regenQueue,
                 fulfilled, rejected, nextId, last, restartVars, fs, errorLog>>

\* the continuation without its re-entrancy guard
RestartGuard_None(flag) == FALSE

\* index.ts:203: the re-entrancy guard of the continuation
RestartGuard(flag) == flag

\* microtask: the continuation registered by the restart timer runs
\* (index.ts:202-221) up to `await serverForRestart.restart()`
RestartContinuation ==
  /\ HasMicrotask
  /\ cbs[NextCb].type = "restart"
  /\ cbs' = RemoveAt(cbs, NextCb)
  /\ IF cbs[NextCb].after \in rejected
       THEN /\ errorLog' = errorLog \cup {"regeneration failed before restart"}
            /\ UNCHANGED restartVars
       ELSE IF RestartGuard(restartingDevServer)
         THEN UNCHANGED <<restartVars, errorLog>>
         ELSE /\ restartingDevServer' = TRUE
              /\ restartInFlight' = restartInFlight + 1
              /\ restartCalls' = restartCalls + 1
              /\ UNCHANGED errorLog
  /\ UNCHANGED <<optVars, auxVars, hookVars, timerVars, pendVars, cacheVars, regenQueue,
                 fulfilled, rejected, nextId, last, fs>>

\* macrotask: a host restart() call resolves (ok) or throws
RestartSettles(ok) ==
  /\ ~HasMicrotask
  /\ restartInFlight > 0
  /\ restartInFlight' = restartInFlight - 1
  /\ restartingDevServer' = FlagAfterRestart(ok)
  /\ errorLog' = IF ok THEN errorLog
                 ELSE errorLog \cup {"failed to restart dev server"}
  /\ UNCHANGED <<optVars, auxVars, hookVars, timerVars, pendVars, cacheVars, chainVars,
                 restartCalls, fs>>

(* ------------------------ dev loop ------------------------------------- *)
\* the host calls configResolved first and, for the dev command,
\* configureServer before any other hook or watcher event
HostReady == config = "build" \/ (config = "serve" /\ devServer)

\* the pending set overwritten by the paths of the latest event
MergePending_Replace(pending, paths) ==
  SetAddAll(<<>>, [i \in DOMAIN paths |-> Normalize(paths[i])])

\* index.ts:230-231: for (const f of delta.changed)
\* pendingChanged.add(path.normalize(f)), and the same for removed
MergePending(pending, paths) ==
  SetAddAll(pending, [i \in DOMAIN paths |-> Normalize(paths[i])])

\* index.ts:229-234 scheduleServeRegeneration(reason, delta), the merge
\* into the pending delta and the (re)arming of the debounce timer
scheduleServeRegeneration(reason, changed, removed, force) ==
  LET cleared == ClearTimeout(timers, serveDebounceTimer)
      h == FreshId(cleared, "serve")
  IN  /\ FreeIds(cleared, "serve") # {}
      /\ pendingChanged' = MergePending(pendingChanged, changed)
      /\ pendingRemoved' = MergePending(pendingRemoved, removed)
      /\ pendingForce' = (pendingForce \/ force)
      /\ pendingReason' = reason
      /\ timers' = cleared \cup {Timer(h, "serve")}
      /\ serveDebounceTimer' = h

\* macrotask: the file `raw` is written (content c) or deleted (c = Absent)
\* and, with a dev server attached, the watcher reports it
\* (index.ts:302-314 onAddOrChange / onUnlink)
FileEvent(raw, c) ==
  LET abs == Normalize(raw) IN
  /\ ~HasMicrotask
  /\ HostReady
  /\ IF ~EndsWithContainerTs(raw)
       THEN UNCHANGED <<fs, timerVars, pendVars, containerFiles>>
       ELSE /\ c # Absent \/ ExistsSync(fs, abs)
            /\ fs' = [fs EXCEPT ![abs] = c]
            /\ nEvents < MaxEvents
            /\ nEvents' = nEvents + 1
            /\ IF ~devServer
                 THEN UNCHANGED <<timerVars, pendingChanged, pendingRemoved,
                                  pendingForce, pendingReason, evChanged,
                                  evRemoved, containerFiles>>
                 ELSE IF c # Absent
                   THEN /\ containerFiles' = SetAdd(containerFiles, abs)
                        /\ scheduleServeRegeneration(<<"changed", abs>>,
                                                     <<raw>>, <<>>, FALSE)
                        /\ evChanged' = evChanged \cup {abs}
                        /\ UNCHANGED <<evRemoved, restartTimer>>
                   ELSE /\ scheduleServeRegeneration(<<"removed", abs>>,
                                                     <<>>, <<raw>>, FALSE)
                        /\ evRemoved' = evRemoved \cup {abs}
                        /\ UNCHANGED <<evChanged, restartTimer, containerFiles>>
  /\ UNCHANGED <<optVars, auxVars, hookVars, moduleCache, generatedOnce, proxyFiles, chainVars,
                 restartVars, errorLog>>

\* the pending sets left as they are after the snapshot
AfterClear_Keep(pending) == pending

\* index.ts:240-241: pendingChanged.clear(), pendingRemoved.clear()
AfterClear(pending) == <<>>

\* macrotask: the regeneration debounce timer fires (index.ts:235-248)
ServeDebounceFire(t) ==
  /\ ~HasMicrotask
  /\ t \in timers /\ t.kind = "serve"
  /\ nextId <= MaxRequests
  /\ serveDebounceTimer' = 0
  /\ pendingChanged' = AfterClear(pendingChanged)
  /\ pendingRemoved' = AfterClear(pendingRemoved)
  /\ pendingForce' = FALSE
  /\ cbs' = Append(cbs, enqueueRegeneration(regenQueue, nextId, "serve",
                          pendingChanged, pendingRemoved, pendingForce))
  /\ regenQueue' = nextId
  /\ nextId' = nextId + 1
  /\ pendingReason' = <<>>
  /\ scheduleContainerRebuild(timers \ {t})
  /\ evChanged' = {}
  /\ evRemoved' = {}
  /\ UNCHANGED nEvents
  /\ UNCHANGED <<optVars, auxVars, hookVars, cacheVars, fulfilled, rejected, last, restartVars,
                 fs, errorLog>>

(* ------------------------ plugin hooks --------------------------------- *)
\* configResolved(c)
ConfigResolved(command) ==
  /\ config = "none"
  /\ config' = command
  /\ UNCHANGED <<devServer, autoRebuildContainers, docker, auxVars, hookVars, timerVars,
                 pendVars, cacheVars, chainVars, restartVars, fs, errorLog>>

\* configureServer(server): only the dev command has a server
ConfigureServer ==
  /\ config = "serve"
  /\ ~devServer
  /\ devServer' = TRUE
  /\ UNCHANGED <<config, autoRebuildContainers, docker, auxVars, hookVars, timerVars, pendVars,
                 cacheVars, chainVars, restartVars, fs, errorLog>>

\* the hook resumes without waiting for the completion
AwaitOn_Nothing(id) == 0

\* index.ts:269, 273, 288: `await enqueueRegeneration(...)`, the promise
\* the hook is suspended on
AwaitOn(id) == id

\* a hook that enqueues a request and awaits its completion
EnqueueAndAwait(hook, kind, changed, force) ==
  /\ nextId <= MaxRequests
  /\ cbs' = cbs \o <<enqueueRegeneration(regenQueue, nextId, kind, changed,
                                         <<>>, force),
                     HookCb(AwaitOn(nextId), hook, changed)>>
  /\ regenQueue' = nextId
  /\ nextId' = nextId + 1

\* buildStart (index.ts:268-270)
BuildStart ==
  /\ ~HasMicrotask
  /\ HostReady
  /\ EnqueueAndAwait("buildStart", "serve", <<>>, FALSE)
  /\ UNCHANGED <<optVars, auxVars, hookVars, timerVars, pendVars, cacheVars, fulfilled, rejected,
                 last, restartVars, fs, errorLog>>

\* closeBundle (index.ts:272-274)
CloseBundle ==
  /\ ~HasMicrotask
  /\ HostReady
  /\ EnqueueAndAwait("closeBundle", "build", <<>>, FALSE)
  /\ UNCHANGED <<optVars, auxVars, hookVars, timerVars, pendVars, cacheVars, fulfilled, rejected,
                 last, restartVars, fs, errorLog>>

\* no import has been resolved by resolveId yet
NoReturn == [id |-> <<>>, path |-> <<>>]

\* proxyFilePath(gdirAbs, fileAbs): the proxy file of a module, under the
\* generated directory
proxyFilePath(fileAbs) == <<"gen", "proxy">> \o Relative(Root, fileAbs)

\* index.ts:294: `return proxyPath`
ResolveIdReturn(resolved) ==
  [id |-> resolved, path |-> proxyFilePath(resolved)]

\* resolveId from the point where this.resolve returned `resolved`
\* (index.ts:281-294); an id that is not a container module returns null
\* at index.ts:282
ResolveId(resolved) ==
  /\ ~HasMicrotask
  /\ HostReady
  /\ EndsWithContainerTs(resolved)
  /\ IF Normalize(resolved) \notin DOMAIN proxyFiles
       THEN /\ EnqueueAndAwait("resolveId",
                               IF config = "build" THEN "build" ELSE "serve",
                               <<resolved>>, TRUE)
            /\ UNCHANGED resolveReturn
       ELSE /\ resolveReturn' = ResolveIdReturn(resolved)
            /\ UNCHANGED <<regenQueue, cbs, nextId>>
  /\ UNCHANGED <<optVars, auxVars, hookFailed, timerVars, pendVars, cacheVars,
                 fulfilled, rejected, last, restartVars, fs, errorLog>>

\* microtask: a hook suspended on its request's promise resumes and returns
HookResume ==
  /\ HasMicrotask
  /\ cbs[NextCb].type = "hook"
  /\ cbs' = RemoveAt(cbs, NextCb)
  /\ hookFailed' = IF cbs[NextCb].after \in rejected
                     THEN hookFailed \cup {cbs[NextCb].hook} ELSE hookFailed
  /\ resolveReturn' =
       IF cbs[NextCb].hook = "resolveId" /\ cbs[NextCb].after \notin rejected
         THEN ResolveIdReturn(cbs[NextCb].changed[1])
         ELSE resolveReturn
  /\ UNCHANGED <<optVars, auxVars, timerVars, pendVars, cacheVars, regenQueue,
                 fulfilled, rejected, nextId, last, restartVars, fs, errorLog>>

(* ------------------------ specification -------------------------------- *)
\* the plugin instance after createNodejsFnPlugin(opts) returned
PluginInit ==
  /\ config = "none"
  /\ devServer = FALSE
  /\ autoRebuildContainers \in BOOLEAN
  /\ docker \in {"generated", "custom"}
  /\ restartTimer = 0
  /\ serveDebounceTimer = 0
  /\ timers = {}
  /\ restartingDevServer = FALSE
  /\ pendingChanged = <<>>
  /\ pendingRemoved = <<>>
  /\ pendingForce = FALSE
  /\ pendingReason = <<>>
  /\ moduleCache = <<>>
  /\ containerFiles = <<>>
  /\ regenQueue = 0
  /\ generatedOnce = FALSE
  /\ fs = [p \in ContainerPaths |->
             IF p = PathA THEN Source(<<ExportF>>, 0) ELSE Absent]
  /\ proxyFiles = <<>>
  /\ cbs = <<>>
  /\ fulfilled = {}
  /\ rejected = {}
  /\ nextId = 1
  /\ restartInFlight = 0
  /\ restartCalls = 0
  /\ errorLog = {}
  /\ last = NoCycle
  /\ evChanged = {}
  /\ evRemoved = {}
  /\ nEvents = 0
  /\ hookFailed = {}
  /\ resolveReturn = NoReturn

\* no generator has run and no proxy has been called
AuxInit ==
  /\ mods = <<>>
  /\ pkgJson = <<>>
  /\ external = <<>>
  /\ disk = <<>>
  /\ writes = {}
  /\ runs = <<>>
  /\ calls = <<>>
  /\ rpcs = <<>>
  /\ initOpts = [dryRun |-> FALSE, force |-> FALSE, yes |-> FALSE]

Init == PluginInit /\ AuxInit

Next ==
  \/ \E command \in {"serve", "build"} : ConfigResolved(command)
  \/ ConfigureServer
  \/ BuildStart
  \/ CloseBundle
  \/ \E resolved \in ContainerPaths :
        \* imports of modules that have no proxy file yet
        /\ Normalize(resolved) \notin DOMAIN proxyFiles
        /\ ResolveId(resolved)
  \/ \E raw \in RawPaths, c \in Contents : FileEvent(raw, c)
  \/ \E t \in timers : ServeDebounceFire(t)
  \/ \E t \in timers : RestartTimerFire(t)
  \/ StartCycle
  \/ \E i \in 1..Len(cbs), ok \in BOOLEAN : EsbuildSettles(i, ok)
  \/ RestartContinuation
  \/ \E ok \in BOOLEAN : RestartSettles(ok)
  \/ HookResume

Spec == Init /\ [][Next]_vars

(* ======================= properties ==================================== *)
RegenCbs == {i \in 1..Len(cbs) : cbs[i].type = "regen"}
Queued == {i \in RegenCbs : cbs[i].state = "queued"}
Finished == fulfilled \cup rejected

\* C1: at most one regeneration cycle body is executing at any moment,
\* a cycle suspended on the bundler included, whoever enqueued the requests.
C1_AtMostOneCycle == Cardinality(Running) <= 1

\* a cycle is suspended on the bundler while another request waits behind it
C1_Witness == Running # {} /\ Queued # {}

\* C2: cycles run in enqueue order: when the cycle of request B has begun
\* (it is executing or has finished), the cycle of every request enqueued
\* before B has finished.
C2_EnqueueOrder ==
  /\ \A i \in Running : \A a \in 1..(cbs[i].id - 1) : a \in Finished
  /\ \A b \in Finished : \A a \in 1..(b - 1) : a \in Finished
  /\ \A a \in 1..(last.id - 1) : a \in Finished

\* request 2 is executing after request 1, enqueued before it, has finished
C2_Witness == \E i \in Running : cbs[i].id = 2 /\ 1 \in Finished

\* C3: a failed cycle is logged and swallowed by the queue: its promise is
\* fulfilled, no promise of the chain is ever rejected, every finished
\* request had its cycle body run, and every queued request waits for a
\* promise that is fulfilled or that belongs to a request still in the queue.
C3_FailureIsolated ==
  /\ rejected = {}
  /\ last.outcome = "failed" =>
       "regeneration failed" \in errorLog /\ last.id \in fulfilled
  /\ last.outcome # "none" => "refresh" \in last.steps
  /\ \A i \in Queued :
       \/ cbs[i].after \in fulfilled \cup {0}
       \/ \E j \in RegenCbs : cbs[j].id = cbs[i].after

\* request 2 ran its cycle to the end after the cycle of request 1 failed
C3_Witness ==
  /\ last.id = 2 /\ last.outcome = "ok"
  /\ "regeneration failed" \in errorLog

\* C4: a cycle that begins while generatedOnce is false is never skipped:
\* it runs discovery and either reaches generation and packaging or fails;
\* it never returns as a no-op, whatever refresh reported.
C4_FirstCycleNeverSkipped ==
  /\ last.first => last.outcome # "noop" /\ "discover" \in last.steps
  /\ (last.first /\ last.outcome = "ok") =>
       {"discover", "refresh", "generate", "packDev"} \subseteq last.steps
  /\ \A i \in Running :
       cbs[i].first =>
         {"discover", "refresh", "generate", "packDev"} \subseteq cbs[i].steps

\* a cycle with generatedOnce false, an empty delta and a refresh that
\* reported nothing dirty ran generation and packaging to the end
C4_Witness ==
  \E i \in Running :
    /\ cbs[i].first /\ ~cbs[i].refreshDirty /\ ~cbs[i].force
    /\ cbs[i].changed = <<>> /\ cbs[i].removed = <<>>
    /\ {"discover", "generate", "packDev"} \subseteq cbs[i].steps

ServeTimers(ts) == {t \in ts : t.kind = "serve"}
RestartTimers(ts) == {t \in ts : t.kind = "restart"}
\* the step is a fire of the regeneration debounce timer
DebounceFires == Cardinality(ServeTimers(timers')) < Cardinality(ServeTimers(timers))
\* the step is a watcher event
EventArrives == nEvents' = nEvents + 1
\* the request enqueued by the step
Enqueued == cbs'[Len(cbs')]

\* C5: the watcher events that arrive before the debounce timer fires are
\* covered by exactly one armed timer and enqueue nothing; its fire enqueues
\* exactly one dev request whose changed and removed sets are the unions of
\* the paths of those events, and leaves nothing pending for a later cycle.
C5_DebounceCoalescing ==
  /\ [](Cardinality(ServeTimers(timers)) =
          IF evChanged \cup evRemoved # {} THEN 1 ELSE 0)
  /\ [][EventArrives => nextId' = nextId]_vars
  /\ [][DebounceFires =>
          /\ nextId' = nextId + 1
          /\ Len(cbs') = Len(cbs) + 1
          /\ Enqueued.type = "regen" /\ Enqueued.kind = "serve"
          /\ SeqToSet(Enqueued.changed) = evChanged
          /\ SeqToSet(Enqueued.removed) = evRemoved
          /\ pendingChanged' = <<>> /\ pendingRemoved' = <<>>
          /\ ServeTimers(timers') = {}]_vars

\* one request carries the two paths of two coalesced events, nothing is
\* left pending and no debounce timer is armed
C5_Witness ==
  /\ \E i \in RegenCbs : Len(cbs[i].changed) + Len(cbs[i].removed) = 2
  /\ nextId = 2 /\ nEvents = 2
  /\ pendingChanged = <<>> /\ pendingRemoved = <<>> /\ serveDebounceTimer = 0

(* ----- a burst of edits: the dev loop from startup, where every event of *)
(* the burst is coalesced by one of the two debounce stages                *)
InitBurst == Init /\ autoRebuildContainers

\* an event of the burst: the first one, or one that arrives while the
\* debounce timer or the restart timer armed for the burst is pending
BurstEvent(raw, c) ==
  /\ devServer
  /\ nEvents = 0 \/ serveDebounceTimer # 0 \/ restartTimer # 0
  /\ FileEvent(raw, c)

\* the restart timer outlives the debounce timer armed after it
BurstRestartTimerFire(t) ==
  /\ serveDebounceTimer = 0
  /\ RestartTimerFire(t)

NextBurst ==
  \/ ConfigResolved("serve")
  \/ ConfigureServer
  \/ BuildStart
  \/ \E raw \in RawPaths, c \in Contents : BurstEvent(raw, c)
  \/ \E t \in timers : ServeDebounceFire(t)
  \/ \E t \in timers : BurstRestartTimerFire(t)
  \/ StartCycle
  \/ \E i \in 1..Len(cbs), ok \in BOOLEAN : EsbuildSettles(i, ok)
  \/ RestartContinuation
  \/ \E ok \in BOOLEAN : RestartSettles(ok)
  \/ HookResume

SpecBurst == InitBurst /\ [][NextBurst]_vars

\* nothing is armed, queued, executing or in flight
Quiescent == timers = {} /\ cbs = <<>> /\ restartInFlight = 0

C7_RestartAfterDrain ==
  [][restartCalls' > restartCalls =>
       \A id \in 1..cbs[NextCb].seen :
         /\ id \in Finished
         /\ \A i \in RegenCbs : cbs[i].id # id]_vars

\* the restart timer has fired while the cycle enqueued by the debounce
\* fire that armed it is still executing: the continuation waits
C7_Witness ==
  \E i \in 1..Len(cbs), j \in Running :
    cbs[i].type = "restart" /\ cbs[j].id <= cbs[i].seen

\* C8: at most one host restart() call is in flight.
C8_RestartNonReentrant == restartInFlight <= 1

\* a restart is in flight while the continuation of a second restart
\* timer is waiting for the queue
C8_Witness ==
  restartInFlight = 1 /\ \E i \in 1..Len(cbs) : cbs[i].type = "restart"

\* C9: restartingDevServer is true exactly while a restart() call is in
\* flight: it is released when the call settles, resolved or thrown, and a
\* debounce fire that finds no restart in flight arms the restart timer.
C9_FlagReleased ==
  /\ [](restartingDevServer <=> restartInFlight > 0)
  /\ [][restartInFlight' < restartInFlight => ~restartingDevServer']_vars
  /\ [][(DebounceFires /\ autoRebuildContainers /\ config = "serve"
          /\ devServer /\ restartInFlight = 0) => restartTimer' # 0]_vars

\* a restart() call has thrown, the flag is released and a restart timer
\* is armed again
C9_Witness ==
  /\ "failed to restart dev server" \in errorLog
  /\ ~restartingDevServer /\ restartInFlight = 0
  /\ restartTimer # 0

\* the normalized paths of a request's delta
NormSet(paths) == {Normalize(paths[i]) : i \in 1..Len(paths)}

\* what the refresh of the cycle begun by the step returned
StartedRefreshDirty(id) ==
  IF last'.id = id THEN last'.refreshDirty
  ELSE \E i \in 1..Len(cbs') : cbs'[i].id = id /\ cbs'[i].refreshDirty

\* C10: in every refresh that reads all its targets, a removed path that
\* is not re-parsed has no descriptor afterwards, and an existing target
\* with zero qualifying exports has no descriptor afterwards and, if it had
\* one, the refresh reports dirty -- whatever was processed before it.
C10_CacheEviction ==
  [][(HasMicrotask /\ cbs[NextCb].type = "regen") =>
       LET cb == cbs[NextCb]
           targets == IF Len(cb.changed) > 0 THEN NormSet(cb.changed)
                      ELSE SeqToSet(containerFiles')
       IN  (\A p \in targets : fs[p].state # "broken") =>
             /\ \A p \in NormSet(cb.removed) \ targets :
                  p \notin DOMAIN moduleCache'
             /\ \A p \in targets :
                  (fs[p].state = "ok" /\ Len(extractExports(fs[p])) = 0) =>
                    /\ p \notin DOMAIN moduleCache'
                    /\ p \in DOMAIN moduleCache => StartedRefreshDirty(cb.id)]_vars

(* ------------------------ refresh on drawn inputs ---------------------- *)
\* revisions of a source text that leave its exports alone
MaxRev == 1

\* export lists that differ by a renamed or added export or by a routing
\* key expression
RefreshExportLists ==
  {<<>>, <<ExportF>>, <<Export(<<"g">>, NoKeyExpr)>>,
   <<ExportF, Export(<<"g">>, NoKeyExpr)>>, <<Export(<<"f">>, <<"k1">>)>>}
RefreshContents ==
  {Absent, Broken}
  \cup {Source(ex, r) : ex \in RefreshExportLists, r \in 0..MaxRev}

\* a dev session after its first cycle: any cache over the known files, any
\* contents on disk, and one queued request with any delta
InitRefresh ==
  /\ config = "serve"
  /\ devServer = TRUE
  /\ autoRebuildContainers = FALSE
  /\ docker = "generated"
  /\ restartTimer = 0
  /\ serveDebounceTimer = 0
  /\ timers = {}
  /\ restartingDevServer = FALSE
  /\ pendingChanged = <<>>
  /\ pendingRemoved = <<>>
  /\ pendingForce = FALSE
  /\ pendingReason = <<>>
  /\ \E exA \in RefreshExportLists, exB \in ExportLists :
       moduleCache =
         [p \in {q \in ContainerPaths :
                   (IF q = PathA THEN exA ELSE exB) # <<>>} |->
            Descriptor(p, IF p = PathA THEN exA ELSE exB)]
  /\ containerFiles \in {<<PathA, PathB>>, <<PathB, PathA>>}
  /\ generatedOnce = TRUE
  /\ fs \in [ContainerPaths -> RefreshContents]
  /\ fs[PathB] \in Contents
  /\ proxyFiles = generateProxyFiles(<<>>, moduleCache)
  /\ \E changed \in {<<>>, <<PathA>>, <<PathB, PathARaw>>},
        removed \in {<<>>, <<PathB>>} :
       cbs = <<RegenCb(2, 1, "serve", changed, removed, FALSE)>>
  /\ regenQueue = 2
  /\ fulfilled = {1}
  /\ rejected = {}
  /\ nextId = 3
  /\ restartInFlight = 0
  /\ restartCalls = 0
  /\ errorLog = {}
  /\ last = [id |-> 1, kind |-> "serve", outcome |-> "ok",
             steps |-> {"discover", "refresh", "generate", "packDev",
                        "bundleDev"},
             first |-> TRUE, refreshDirty |-> TRUE]
  /\ evChanged = {}
  /\ evRemoved = {}
  /\ nEvents = 0
  /\ hookFailed = {}
  /\ resolveReturn = NoReturn
  /\ AuxInit

NextRefresh ==
  \/ StartCycle
  \/ \E i \in 1..Len(cbs), ok \in BOOLEAN : EsbuildSettles(i, ok)

SpecRefresh == InitRefresh /\ [][NextRefresh]_vars

\* the names of the entry functions of an export list
ExportNames(ex) == {ex[i].name : i \in 1..Len(ex)}

\* C11: in every refresh that reads all its targets, (a) if nothing is
\* removed and every existing target re-parses to a descriptor equal to its
\* cached one, the cache is unchanged and the refresh is not dirty; (b) a
\* cached target whose re-parse has another set of export names has its
\* descriptor replaced (removed when no export is left) and the refresh is
\* dirty.
C11_ContentDirtiness ==
  [][(HasMicrotask /\ cbs[NextCb].type = "regen") =>
       LET cb == cbs[NextCb]
           targets == IF Len(cb.changed) > 0 THEN NormSet(cb.changed)
                      ELSE SeqToSet(containerFiles')
       IN  (\A p \in targets : fs[p].state # "broken") =>
             /\ ( /\ cb.removed = <<>>
                  /\ \A p \in targets :
                       fs[p].state = "ok" =>
                         /\ p \in DOMAIN moduleCache
                         /\ moduleCache[p]
                              = Descriptor(p, extractExports(fs[p])) )
                  => /\ moduleCache' = moduleCache
                     /\ ~StartedRefreshDirty(cb.id)
             /\ \A p \in targets :
                  ( /\ fs[p].state = "ok"
                    /\ p \in DOMAIN moduleCache
                    /\ ExportNames(extractExports(fs[p]))
                         # ExportNames(moduleCache[p].exports) )
                  => /\ StartedRefreshDirty(cb.id)
                     /\ IF extractExports(fs[p]) = <<>>
                          THEN p \notin DOMAIN moduleCache'
                          ELSE /\ p \in DOMAIN moduleCache'
                               /\ moduleCache'[p]
                                    = Descriptor(p, extractExports(fs[p]))]_vars

\* the part of C11 about re-parses that leave at least one export
C11_HoldsWithExports ==
  [][(HasMicrotask /\ cbs[NextCb].type = "regen") =>
       LET cb == cbs[NextCb]
           targets == IF Len(cb.changed) > 0 THEN NormSet(cb.changed)
                      ELSE SeqToSet(containerFiles')
       IN  (\A p \in targets : fs[p].state # "broken") =>
             /\ ( /\ cb.removed = <<>>
                  /\ \A p \in targets :
                       fs[p].state = "ok" =>
                         /\ p \in DOMAIN moduleCache
                         /\ moduleCache[p]
                              = Descriptor(p, extractExports(fs[p])) )
                  => /\ moduleCache' = moduleCache
                     /\ ~StartedRefreshDirty(cb.id)
             /\ \A p \in targets :
                  ( /\ fs[p].state = "ok"
                    /\ p \in DOMAIN moduleCache
                    /\ extractExports(fs[p]) # <<>>
                    /\ ExportNames(extractExports(fs[p]))
                         # ExportNames(moduleCache[p].exports) )
                  => /\ StartedRefreshDirty(cb.id)
                     /\ p \in DOMAIN moduleCache'
                     /\ moduleCache'[p]
                          = Descriptor(p, extractExports(fs[p]))]_vars

\* C12: a cycle of kind build that completed without error has packaged the
\* release copy of the server artifact, also when it follows a completed
\* dev cycle with no module change in between.
C12_ReleaseCopyPackaged ==
  (last.kind = "build" /\ last.outcome \in {"ok", "noop"})
    => "packBuild" \in last.steps

\* the cycle that finished last threw "Custom Dockerfile not found"
\* (part_000:142-148): with a custom Dockerfile nothing else fails after the
\* generators
MissingDockerfileCycle ==
  /\ docker = "custom"
  /\ last.outcome = "failed"
  /\ "packDev" \in last.steps

\* in a build, the only request of kind serve is the one of buildStart; the
\* hook has resumed when no hook callback waits on that request
BuildStartReturned ==
  /\ config = "build"
  /\ last.kind = "serve"
  /\ \A i \in 1..Len(cbs) :
       cbs[i].type = "hook" => cbs[i].after # last.id

\* C13 as stated: when the cycle of buildStart fails on a missing custom
\* Dockerfile, buildStart fails.
C13_StartupAborts ==
  (MissingDockerfileCycle /\ BuildStartReturned)
    => "buildStart" \in hookFailed

\* C13 amended: a missing custom Dockerfile fails its cycle only; the error
\* is logged by the handler of the queue and buildStart never fails.
C13_MissingDockerfileLogged ==
  /\ MissingDockerfileCycle => "regeneration failed" \in errorLog
  /\ "buildStart" \notin hookFailed

C13_Witness ==
  /\ MissingDockerfileCycle
  /\ BuildStartReturned
  /\ "regeneration failed" \in errorLog
  /\ "buildStart" \notin hookFailed

(* ------------------------ generators and packaging --------------------- *)
\* generation runs in one behaviour
MaxRuns == 2
\* length of a drawn identifier
MaxIdentLen == 2

\* the state threaded through the generators: the files on disk and the
\* paths written so far by the run
GenState(d, w, threw) == [disk |-> d, writes |-> w, threw |-> threw]

\* writeFileIfChanged(path, text): writes unless the file already has
\* exactly this content
writeFileIfChanged(d, path, text) ==
  IF path \in DOMAIN d.disk /\ d.disk[path] = text THEN d
  ELSE GenState(MapSet(d.disk, path, text), d.writes \cup {path}, d.threw)

\* generateRuntime: a fixed text, independent of the modules
generateRuntime(d) ==
  writeFileIfChanged(d, <<"gen", "runtime">>, <<"nodejsFn", "containerKey">>)

\* generate-proxy-files.ts:54: ex.containerKeyExpr ?? "undefined"
KeyExprText(ex) ==
  IF ex.containerKeyExpr = NoKeyExpr THEN "undefined"
  ELSE ex.containerKeyExpr[1]

\* generate-proxy-files.ts:50-78: one wrapper per export
ProxyText(mod) ==
  [namespace |-> mod.namespace,
   wrappers |-> [j \in 1..Len(mod.exports) |->
                   [name |-> mod.exports[j].name,
                    keyExpr |-> KeyExprText(mod.exports[j])]]]

RECURSIVE WriteProxies(_, _)
\* generate-proxy-files.ts:28-81: one proxy file per module
WriteProxies(d, ms) ==
  IF ms = <<>> THEN d
  ELSE WriteProxies(
         writeFileIfChanged(d, proxyFilePath(Head(ms).fileAbs),
                            ProxyText(Head(ms))),
         Tail(ms))

\* part_000:84: `${mod.namespace}__${ex.name}`
MethodName(namespace, name) == namespace \o <<"_", "_">> \o name

\* part_000:75: `m_${mod.namespace}`
ImportName(namespace) == <<"m", "_">> \o namespace

\* part_000:83-88: the methods generated for one module
ModMethods(mod) ==
  [j \in 1..Len(mod.exports) |->
     [name |-> MethodName(mod.namespace, mod.exports[j].name),
      import |-> ImportName(mod.namespace),
      export |-> mod.exports[j].name]]

RECURSIVE ApiMethods(_)
\* part_000:82-90: mods.flatMap(...)
ApiMethods(ms) ==
  IF ms = <<>> THEN <<>> ELSE ModMethods(Head(ms)) \o ApiMethods(Tail(ms))

\* part_000:62-130: the entry module: its imports and the Api class
EntryText(ms) ==
  [imports |-> [i \in 1..Len(ms) |->
                  [name |-> ImportName(ms[i].namespace),
                   from |-> ms[i].fileRelFromRoot]],
   methods |-> ApiMethods(ms)]

\* a dependency version is a string; if (src[name]) takes the non-empty ones
Truthy(v) == v # ""

\* part_000:10-17: the package read when package.json is missing or invalid
MinimalPkg ==
  [state |-> "ok", name |-> <<"create-nodejs-fn-container">>,
   version |-> <<"0.0.0">>, dependencies |-> <<>>,
   optionalDependencies |-> <<>>, devDependencies |-> <<>>,
   peerDependencies |-> <<>>]

\* part_000:19-24
DepsSources(pkg) ==
  <<pkg.dependencies, pkg.optionalDependencies, pkg.devDependencies,
    pkg.peerDependencies>>

RECURSIVE FirstTruthy(_, _)
\* part_000:27-32: the loop over depsSources, <<>> when it never breaks
FirstTruthy(srcs, name) ==
  IF srcs = <<>> THEN <<>>
  ELSE IF name \in DOMAIN Head(srcs) /\ Truthy(Head(srcs)[name])
    THEN <<Head(srcs)[name]>>
  ELSE FirstTruthy(Tail(srcs), name)

RECURSIVE CollectDeps(_, _, _)
\* part_000:26-33: the loop over needed
CollectDeps(out, needed, srcs) ==
  IF needed = <<>> THEN out
  ELSE LET v == FirstTruthy(srcs, Head(needed))
       IN  CollectDeps(IF v = <<>> THEN out
                       ELSE MapSet(out, Head(needed), v[1]),
                       Tail(needed), srcs)

\* collectExternalDeps(rootPkgPath, needed)
collectExternalDeps(pkg, needed) ==
  LET p == IF pkg.state = "ok" THEN pkg ELSE MinimalPkg
  IN  [name |-> IF p.name = <<>> THEN "create-nodejs-fn-container"
                ELSE p.name[1],
       version |-> IF p.version = <<>> THEN "0.0.0" ELSE p.version[1],
       dependencies |-> CollectDeps(<<>>, needed, DepsSources(p))]

\* the bundle esbuild produces from the entry module
Bundle(entry) == [bundleOf |-> entry]

\* esbuild also runs after a custom Dockerfile was written
SkipsBundle_Never(dockerOpt) == FALSE

\* part_000:142,165: with a custom Dockerfile buildContainerServer returns
\* before esbuild.build
SkipsBundle(dockerOpt) == dockerOpt = "custom"

\* buildContainerServer for the output directory `base`
buildContainerServer(d, ms, base, dockerOpt, ext, pkg, dockerfileExists) ==
  LET d1 == writeFileIfChanged(d, <<base, "container.entry.ts">>,
                               EntryText(ms))
      d2 == writeFileIfChanged(d1, <<base, "package.json">>,
                               collectExternalDeps(pkg, ext))
      d3 == IF dockerOpt = "custom"
              THEN IF ~dockerfileExists
                     THEN GenState(d2.disk, d2.writes, TRUE)
                     ELSE writeFileIfChanged(d2, <<base, "Dockerfile">>,
                                             <<"custom Dockerfile">>)
              ELSE writeFileIfChanged(d2, <<base, "Dockerfile">>,
                                      <<"generated Dockerfile">>)
  IN  IF d3.threw \/ SkipsBundle(dockerOpt) THEN d3
      ELSE \* esbuild.build writes its output file on every run
           GenState(MapSet(d3.disk, <<base, "server.mjs">>,
                           Bundle(EntryText(ms))),
                    d3.writes \cup {<<base, "server.mjs">>}, d3.threw)

\* index.ts:130-174: the generators and the packaging of one cycle, run to
\* completion on the module list `mods`
GenRun(kind) ==
  /\ Len(runs) < MaxRuns
  /\ LET d0 == GenState(disk, {}, FALSE)
         d1 == WriteProxies(generateRuntime(d0), mods)
         d2 == buildContainerServer(d1, mods, "dev", docker, external,
                                    pkgJson, TRUE)
         d3 == IF kind = "build"
                 THEN buildContainerServer(d2, mods, "dist", docker, external,
                                           pkgJson, TRUE)
                 ELSE d2
     IN  /\ disk' = d3.disk
         /\ writes' = d3.writes
  /\ runs' = Append(runs, kind)
  /\ UNCHANGED <<pluginVars, mods, pkgJson, external, proxyVars, initOpts>>

\* identifiers: non-empty sequences of characters
Idents == UNION {[1..n -> {"_", "a"}] : n \in 1..MaxIdentLen}

\* the order of localeCompare on identifiers: "_" sorts before letters
RECURSIVE IdentLess(_, _)
IdentLess(s, t) ==
  IF t = <<>> THEN FALSE
  ELSE IF s = <<>> THEN TRUE
  ELSE IF Head(s) # Head(t) THEN Head(s) = "_"
  ELSE IdentLess(Tail(s), Tail(t))

\* a module with one export, its namespace and export name drawn
DrawnModule(abs, ns, name) ==
  [Descriptor(abs, <<Export(name, NoKeyExpr)>>) EXCEPT !.namespace = ns]

\* module lists as regenerate hands them over: sorted by namespace
DrawnMods ==
  {<<DrawnModule(PathA, n, e)>> : n \in Idents, e \in Idents}
  \cup {<<DrawnModule(PathA, x[1], x[2]), DrawnModule(PathB, x[3], x[4])>> :
          x \in {y \in Idents \X Idents \X Idents \X Idents :
                   IdentLess(y[1], y[3])}}

\* the versions a section can declare for a name ("" is any version)
Versions(name) == IF name = "sharp" THEN {"", "1", "2"} ELSE {"1"}
Sections ==
  UNION {{f \in [S -> {"", "1", "2"}] : \A n \in S : f[n] \in Versions(n)} :
           S \in SUBSET {"sharp", "lodash"}}

Pkg(deps, opt, dev, peer) ==
  [state |-> "ok", name |-> <<"app">>, version |-> <<"1.0.0">>,
   dependencies |-> deps, optionalDependencies |-> opt,
   devDependencies |-> dev, peerDependencies |-> peer]

\* any package.json, or one that is missing or does not parse
PkgJsons ==
  {[MinimalPkg EXCEPT !.state = "missing"]}
  \cup {Pkg(x[1], x[2], x[3], x[4]) :
          x \in Sections \X Sections \X Sections \X Sections}

\* the inputs of the generators: any module list with a sample package, or
\* a sample module list with any package and external names
InitGen ==
  /\ PluginInit
  /\ autoRebuildContainers
  /\ \/ /\ mods \in DrawnMods
        /\ pkgJson = Pkg([n \in {"sharp"} |-> "1"], <<>>, <<>>, <<>>)
        /\ external = <<"sharp">>
     \/ /\ mods = <<DrawnModule(PathA, <<"a">>, <<"a">>)>>
        /\ docker = "custom"
        /\ pkgJson \in PkgJsons
        /\ external \in {<<>>, <<"sharp">>, <<"lodash", "sharp">>}
  /\ disk = <<>>
  /\ writes = {}
  /\ runs = <<>>
  /\ calls = <<>>
  /\ rpcs = <<>>
  /\ initOpts = [dryRun |-> FALSE, force |-> FALSE, yes |-> FALSE]

NextGen == \E kind \in {"serve", "build"} : GenRun(kind)

SpecGen == InitGen /\ [][NextGen]_vars

\* the (module, export) pairs of the module list
Pairs == {<<i, j>> : i \in 1..Len(mods), j \in 1..2} \cap
         {p \in (1..Len(mods)) \X (1..2) : p[2] <= Len(mods[p[1]].exports)}

DistinctNamespaces ==
  \A i, j \in 1..Len(mods) : i # j => mods[i].namespace # mods[j].namespace

\* a call of api[name]: of the class members with one name the last wins
ApiDispatch(api, name) ==
  LET k == CHOOSE k \in 1..Len(api) :
             /\ api[k].name = name
             /\ \A l \in (k+1)..Len(api) : api[l].name # name
  IN  [import |-> api[k].import, export |-> api[k].export]

\* C14: for a module list with pairwise distinct namespaces the generated
\* Api class has as many distinct method names as there are (module,
\* export) pairs, and the method named after a pair forwards to the export
\* of that pair.
C14_OneMethodPerPair ==
  (<<"dev", "container.entry.ts">> \in DOMAIN disk /\ DistinctNamespaces) =>
    LET api == disk[<<"dev", "container.entry.ts">>].methods IN
    /\ Cardinality({api[k].name : k \in 1..Len(api)}) = Cardinality(Pairs)
    /\ \A p \in Pairs :
         ApiDispatch(api, MethodName(mods[p[1]].namespace,
                                     mods[p[1]].exports[p[2]].name))
           = [import |-> ImportName(mods[p[1]].namespace),
              export |-> mods[p[1]].exports[p[2]].name]

\* the run of the step wrote only to locations an earlier run wrote to
RepeatedRun ==
  /\ runs # <<>>
  /\ runs' # runs
  /\ runs'[Len(runs')] = "build" => "build" \in SeqToSet(runs)

DeclaredIn(name) ==
  {k \in 1..4 : name \in DOMAIN DepsSources(pkgJson)[k]}

\* C20: the manifest's dependencies are keyed by external names only; an
\* external name is a key exactly when some section of the project's
\* package.json declares it, and its version is the one of the first
\* section (dependencies, optional, dev, peer) declaring it.
C20_ManifestDeps ==
  (<<"dev", "package.json">> \in DOMAIN disk /\ pkgJson.state = "ok") =>
    LET dep == disk[<<"dev", "package.json">>].dependencies IN
    /\ DOMAIN dep \subseteq SeqToSet(external)
    /\ \A n \in SeqToSet(external) :
         /\ n \in DOMAIN dep <=> DeclaredIn(n) # {}
         /\ n \in DOMAIN dep =>
              \E k \in DeclaredIn(n) :
                /\ \A l \in DeclaredIn(n) : k <= l
                /\ dep[n] = DepsSources(pkgJson)[k][n]

\* C20 for projects that declare no empty version
C20_HoldsForNonEmptyVersions ==
  (\A k \in 1..4 : \A n \in DOMAIN DepsSources(pkgJson)[k] :
     DepsSources(pkgJson)[k][n] # "")
  => C20_ManifestDeps

MaxCalls == 2

\* the values a routing-key expression evaluates to in the wrapper
KeyValue(tag, value) == [tag |-> tag, value |-> value]

\* the text of containerKey(({ args }) => args[0])
KeyFromArg == "({ args }) => args[0]"

\* generate-proxy-files.ts:66: the value of (${keyExpr}) as written into
\* the wrapper
EvalKeyExpr(text) ==
  CASE text = "undefined" -> KeyValue("undefined", "")
    [] text = KeyFromArg -> KeyValue("function", text)
    [] OTHER -> KeyValue("literal", text)

\* the fallback is passed on as evaluated
Fallback_NoDefault(localKey) == localKey

\* generate-proxy-files.ts:69: localKey ?? "default"
Fallback(localKey) ==
  IF localKey.tag = "undefined" THEN KeyValue("literal", "default") ELSE localKey

\* __resolveContainerKey: the concrete key of a call, the literal fallback
\* or the result of the fallback function on the call context
resolveContainerKey(namespace, name, ctx, fallbackKey) ==
  IF fallbackKey.tag = "function" THEN ctx.args[1] ELSE fallbackKey.value

\* containers({ containerKey }): the backend instance addressed by the key
containers(containerKey) == [instance |-> containerKey]

\* the modules whose proxies are called: no key, a literal key, a key
\* computed from the call
ProxyMods ==
  <<Descriptor(PathA, <<ExportF, Export(<<"g">>, <<"k1">>),
                        Export(<<"h">>, <<KeyFromArg>>)>>)>>

\* generate-proxy-files.ts:64-69: the wrapper runs up to its return; the
\* key is not resolved yet and the caller holds a pending promise
Invoke(i, j, args) ==
  /\ Len(calls) < MaxCalls
  /\ LET w == ProxyText(mods[i]).wrappers[j]
         ctx == [args |-> args]
         localKey == EvalKeyExpr(w.keyExpr)
     IN  calls' = Append(calls,
                    [namespace |-> mods[i].namespace, name |-> w.name,
                     ctx |-> ctx, fallbackKey |-> Fallback(localKey),
                     state |-> "resolving", key |-> <<>>])
  /\ UNCHANGED <<pluginVars, genVars, rpcs, initOpts>>

\* the promise keyP of call c settles with the resolved key
KeyResolves(c) ==
  /\ calls[c].state = "resolving"
  /\ calls' = [calls EXCEPT ![c].state = "resolved",
                            ![c].key = <<resolveContainerKey(
                                          calls[c].namespace, calls[c].name,
                                          calls[c].ctx, calls[c].fallbackKey)>>]
  /\ UNCHANGED <<pluginVars, genVars, rpcs, initOpts>>

\* the wrapper dispatches without waiting for keyP
CanDispatch_Eager(call) == call.state \in {"resolving", "resolved"}

\* generate-proxy-files.ts:71: the dispatch is the .then callback of keyP
CanDispatch(call) == call.state = "resolved"

\* the backend is looked up with the key expression's value
DispatchKey_Fallback(call) == <<call.fallbackKey.value>>

\* generate-proxy-files.ts:71-72: the key handed to containers() is the
\* value keyP resolved to
DispatchKey(call) == call.key

\* generate-proxy-files.ts:71-73: the .then callback of call c runs
Dispatch(c) ==
  /\ CanDispatch(calls[c])
  /\ calls' = [calls EXCEPT ![c].state = "dispatched"]
  /\ rpcs' = Append(rpcs,
               [call |-> c,
                backend |-> containers(DispatchKey(calls[c])),
                namespace |-> calls[c].namespace, name |-> calls[c].name,
                args |-> calls[c].ctx.args])
  /\ UNCHANGED <<pluginVars, genVars, initOpts>>

InitProxy ==
  /\ PluginInit
  /\ autoRebuildContainers
  /\ docker = "generated"
  /\ mods = ProxyMods
  /\ pkgJson = <<>>
  /\ external = <<>>
  /\ disk = <<>>
  /\ writes = {}
  /\ runs = <<>>
  /\ calls = <<>>
  /\ rpcs = <<>>
  /\ initOpts = [dryRun |-> FALSE, force |-> FALSE, yes |-> FALSE]

NextProxy ==
  \/ \E i \in 1..Len(mods), j \in 1..3, args \in {<<"k1">>, <<"k2">>} :
       j <= Len(mods[i].exports) /\ Invoke(i, j, args)
  \/ \E c \in 1..Len(calls) : KeyResolves(c)
  \/ \E c \in 1..Len(calls) : Dispatch(c)

SpecProxy == InitProxy /\ [][NextProxy]_vars

\* C15: every RPC dispatch belongs to a call whose key resolution has
\* completed, goes to the backend obtained for that resolved key and to the
\* method of the call's module and export with the caller's arguments; and
\* a wrapper returns before anything is dispatched for its call.
C15_ResolveBeforeDispatch ==
  /\ \A r \in 1..Len(rpcs) :
       LET call == calls[rpcs[r].call] IN
       /\ call.state = "dispatched"
       /\ call.key # <<>>
       /\ rpcs[r].backend = containers(call.key)
       /\ rpcs[r].namespace = call.namespace
       /\ rpcs[r].name = call.name
       /\ rpcs[r].args = call.ctx.args
  /\ \A c \in 1..Len(calls) :
       calls[c].state = "resolving" =>
         \A r \in 1..Len(rpcs) : rpcs[r].call # c

C15_Witness ==
  \E r \in 1..Len(rpcs) :
    /\ calls[rpcs[r].call].fallbackKey.tag = "function"
    /\ rpcs[r].backend = containers(<<"k2">>)
    /\ rpcs[r].name = <<"h">>

\* C16: every call through the proxy of an export declared without a
\* routing-key expression passes the fallback key "default", whatever its
\* arguments.
C16_DefaultFallback ==
  \A c \in 1..Len(calls) :
    (\E i \in 1..Len(mods) : \E j \in 1..Len(mods[i].exports) :
       /\ mods[i].namespace = calls[c].namespace
       /\ mods[i].exports[j].name = calls[c].name
       /\ mods[i].exports[j].containerKeyExpr = NoKeyExpr)
    => calls[c].fallbackKey = KeyValue("literal", "default")

C16_Witness ==
  /\ Len(calls) = 2
  /\ calls[1].name = <<"f">> /\ calls[1].ctx.args = <<"k1">>
  /\ calls[2].name = <<"f">> /\ calls[2].ctx.args = <<"k2">>
  /\ calls[1].fallbackKey = KeyValue("literal", "default")
  /\ calls[2].fallbackKey = KeyValue("literal", "default")

NextResolve ==
  \/ \E command \in {"serve", "build"} : ConfigResolved(command)
  \/ ConfigureServer
  \/ BuildStart
  \/ CloseBundle
  \/ \E resolved \in ContainerPaths : ResolveId(resolved)
  \/ StartCycle
  \/ \E i \in 1..Len(cbs), ok \in BOOLEAN : EsbuildSettles(i, ok)
  \/ HookResume

SpecResolve == Init /\ [][NextResolve]_vars

\* resolveId returned on this step
ResolveIdReturns == resolveReturn' # resolveReturn

\* the hook suspended in callback i resumes on this step
HookResumes(i, hook) ==
  /\ i \in 1..Len(cbs)
  /\ cbs[i].type = "hook"
  /\ cbs[i].hook = hook
  /\ cbs' = RemoveAt(cbs, i)

\* C21: every import resolving to a .container.ts path is answered with the
\* path under which the proxy generator writes that module's proxy; the
\* answer is given at once only if the proxy file exists, otherwise a forced
\* request containing the path is enqueued and resolveId returns only after
\* that request's cycle has finished.
C21_ImportReplacement ==
  [][/\ ResolveIdReturns =>
          /\ EndsWithContainerTs(resolveReturn'.id)
          /\ \A p \in DOMAIN moduleCache' :
               p = Normalize(resolveReturn'.id) =>
                 resolveReturn'.path \in
                   DOMAIN WriteProxies(GenState(<<>>, {}, FALSE),
                                       <<moduleCache'[p]>>).disk
     /\ (ResolveIdReturns /\ cbs' = cbs) =>
          Normalize(resolveReturn'.id) \in DOMAIN proxyFiles
     /\ \A i \in 1..Len(cbs) :
          HookResumes(i, "resolveId") =>
            /\ cbs[i].after \in Finished
            /\ \A j \in RegenCbs :
                 /\ cbs[j].id # cbs[i].after
                 /\ j = i - 1 => ~(cbs[j].force /\ cbs[j].changed = cbs[i].changed)
     /\ \A resolved \in ContainerPaths :
          (/\ Len(cbs') = Len(cbs) + 2
           /\ cbs'[Len(cbs')].hook = "resolveId"
           /\ cbs'[Len(cbs')].changed = <<resolved>>) =>
            /\ Normalize(resolved) \notin DOMAIN proxyFiles
            /\ cbs'[Len(cbs) + 1].type = "regen"
            /\ cbs'[Len(cbs) + 1].force
            /\ resolved \in SeqToSet(cbs'[Len(cbs) + 1].changed)
            /\ UNCHANGED resolveReturn
    ]_vars

\* an import of a module without proxy was answered after its forced cycle
\* generated the proxy, and an import of the other module, which has no
\* exports and no proxy, was answered too
C21_Witness ==
  /\ resolveReturn = ResolveIdReturn(PathB)
  /\ PathA \in DOMAIN proxyFiles
  /\ PathB \notin DOMAIN proxyFiles
  /\ last.id = 2
  /\ cbs = <<>>


(* ======================= read failures ================================= *)
\* C22: when a target file of a refresh cannot be read, that file is skipped:
\* its cached descriptor stays as it was, the other targets are refreshed,
\* and the cycle is not ended by the failure before it reaches generation.
C22_ParseFailureNonFatal ==
  [][(HasMicrotask /\ cbs[NextCb].type = "regen"
        /\ cbs[NextCb].after \notin rejected) =>
       LET cb == cbs[NextCb]
           targets == IF Len(cb.changed) > 0 THEN NormSet(cb.changed)
                      ELSE SeqToSet(containerFiles')
           unreadable == {p \in targets : fs[p].state = "broken"}
       IN  unreadable # {} =>
             /\ \A p \in unreadable \ NormSet(cb.removed) :
                  /\ p \in DOMAIN moduleCache <=> p \in DOMAIN moduleCache'
                  /\ p \in DOMAIN moduleCache => moduleCache'[p] = moduleCache[p]
             /\ \A q \in targets \ unreadable :
                  (fs[q].state = "ok" /\ extractExports(fs[q]) # <<>>) =>
                    /\ q \in DOMAIN moduleCache'
                    /\ moduleCache'[q] = Descriptor(q, extractExports(fs[q]))
             /\ ~(/\ last'.id = cb.id
                  /\ last'.outcome = "failed"
                  /\ "generate" \notin last'.steps)]_vars


(* ======================= liveness of the dev loop ====================== *)
\* a dev session in which every watcher event can be followed by its
\* debounce fire: an event arrives only while a request id is left for that
\* fire, and buildStart is called before the first event
NextLive ==
  \/ ConfigResolved("serve")
  \/ ConfigureServer
  \/ nEvents = 0 /\ BuildStart
  \/ \E raw \in RawPaths, c \in Contents :
        /\ devServer
        /\ nextId <= MaxRequests
        /\ FileEvent(raw, c)
  \/ \E t \in timers : ServeDebounceFire(t)
  \/ \E t \in timers : RestartTimerFire(t)
  \/ StartCycle
  \/ \E i \in 1..Len(cbs), ok \in BOOLEAN : EsbuildSettles(i, ok)
  \/ RestartContinuation
  \/ \E ok \in BOOLEAN : RestartSettles(ok)
  \/ HookResume

\* the event loop goes on: a timer that stays armed fires, a callback of a
\* settled promise gets its turn, and the bundler and the host restart the
\* plugin awaits come back
Progress ==
  \/ \E t \in timers : ServeDebounceFire(t)
  \/ \E t \in timers : RestartTimerFire(t)
  \/ \E i \in 1..Len(cbs), ok \in BOOLEAN : EsbuildSettles(i, ok)
  \/ RestartContinuation
  \/ \E ok \in BOOLEAN : RestartSettles(ok)
  \/ HookResume

\* weak fairness of Progress and of StartCycle; the latter with its enabling
\* condition written out: StartCycle is enabled exactly when the callback
\* whose turn it is belongs to a regeneration request
SpecLive ==
  /\ Init
  /\ [][NextLive]_vars
  /\ WF_vars(Progress)
  /\ \/ []<>(~(HasMicrotask /\ cbs[NextCb].type = "regen"))
     \/ []<><<StartCycle>>_vars

\* request k is queued or running and its delta holds path p
RequestHolds(k, p) ==
  \E i \in RegenCbs :
    /\ cbs[i].id = k
    /\ p \in NormSet(cbs[i].changed) \cup NormSet(cbs[i].removed)

\* the cycle of request k has begun or has finished
CycleRan(k) ==
  \/ k \in Finished
  \/ \E i \in Running : cbs[i].id = k

\* C23: a path reported by a watcher event and still pending is eventually
\* part of the delta of the next request enqueued, and the cycle of that
\* request eventually runs.
C23_EveryEditRegenerated ==
  \A p \in ContainerPaths : \A k \in 1..MaxRequests :
    /\ (p \in evChanged \cup evRemoved /\ nextId = k) ~> RequestHolds(k, p)
    /\ RequestHolds(k, p) ~> CycleRan(k)

\* two separate edits, each with its own debounce fire and its own cycle,
\* and the dev loop at rest
C23_Witness ==
  /\ nEvents = 2
  /\ last.id = 2
  /\ last.kind = "serve"
  /\ Finished = {1, 2}
  /\ evChanged \cup evRemoved = {}
  /\ Quiescent


(* ======================= the init command ============================== *)
\* `create-nodejs-fn init` run in a project directory. disk is the project's
\* file system, paths relative to the working directory; a file's text is
\* the sequence of its lines as split("\n") gives them, so a text that ends
\* in a newline has "" as its last line. writes collects the paths the
\* command created or wrote, runs the status each step reported. A
\* directory is an entry with the text <<"<dir>">>.
RECURSIVE ensureDir(_, _)
\* ensureDir(dir): creates the directory, and its parents, unless it exists
ensureDir(d, dir) ==
  IF dir = <<>> \/ dir \in DOMAIN d.disk THEN d
  ELSE LET up == ensureDir(d, SubSeq(dir, 1, Len(dir) - 1))
       IN  GenState(MapSet(up.disk, dir, <<"<dir>">>), up.writes \cup {dir},
                    up.threw)

\* part_001:191-208: the generated Dockerfile text
DockerfileText == <<"FROM node:20-slim", "CMD [node, ./server.mjs]", "">>

\* part_001:182-220, with the default image path; overwrite is the answer
\* of prompter.confirm
ensureDockerfileFromImagePath(d, opts, overwrite) ==
  LET dockerDir == <<".create-nodejs-fn">>
      dockerfileAbs == dockerDir \o <<"Dockerfile">>
      d1 == ensureDir(d, dockerDir)
      beforeExists == dockerfileAbs \in DOMAIN d1.disk
  IN  IF /\ beforeExists /\ ~opts.force
         /\ (d1.disk[dockerfileAbs] = DockerfileText \/ ~overwrite)
        THEN [d |-> d1, status |-> "skipped"]
        ELSE [d |-> IF ~opts.dryRun
                          THEN writeFileIfChanged(d1, dockerfileAbs,
                                                  DockerfileText)
                          ELSE d1, status |->
                        IF beforeExists THEN "updated" ELSE "created"]

RECURSIVE trimBlankDuplicates(_)
\* part_001:601-608
trimBlankDuplicates(lines) ==
  IF Len(lines) < 2 THEN lines
  ELSE LET out == trimBlankDuplicates(SubSeq(lines, 1, Len(lines) - 1))
           line == lines[Len(lines)]
       IN  IF line = "" /\ out[Len(out)] = "" THEN out ELSE Append(out, line)

\* part_001:222-249
updateGitignore(d, opts) ==
  LET target == <<".gitignore">>
      beforeExists == target \in DOMAIN d.disk
      existing == IF beforeExists THEN d.disk[target] ELSE <<>>
      block == <<"# create-nodejs-fn", ".create-nodejs-fn/*",
                 "!.create-nodejs-fn/Dockerfile", "src/__generated__">>
      missing == SelectSeq(block, LAMBDA line : line \notin SeqToSet(existing))
      lines == (IF Len(existing) > 0 /\ existing[Len(existing)] # ""
                  THEN Append(existing, "") ELSE existing) \o missing
      cleaned == trimBlankDuplicates(lines)
      \* cleaned.endsWith("\n") ? cleaned : `${cleaned}\n`
      next == IF Len(cleaned) >= 2 /\ cleaned[Len(cleaned)] = ""
                THEN cleaned ELSE Append(cleaned, "")
  IN  IF missing = <<>> THEN [d |-> d, status |-> "skipped"]
      ELSE [d |-> IF ~opts.dryRun
                        THEN GenState(MapSet(d.disk, target, next),
                                      d.writes \cup {target}, d.threw)
                        ELSE d, status |->
                      IF beforeExists THEN "updated" ELSE "created"]

\* part_001:251-257
ensureGeneratedDir(d, opts) ==
  LET dir == <<"src", "__generated__">> IN
  IF dir \in DOMAIN d.disk THEN [d |-> d, status |-> "skipped"]
  ELSE [d |-> IF ~opts.dryRun THEN ensureDir(d, dir) ELSE d, status |-> "created"]

\* part_001:259-290 with readWranglerJsonc and mergeWranglerConfigExisting:
\* of wrangler.jsonc the model keeps whether it has comments ("//"), a main
\* entry ("main") and the container configuration ("cnf"); ok is the answer
\* of prompter.confirm
writeWranglerJsoncForExistingProject(d, opts, ok) ==
  LET wranglerPath == <<"wrangler.jsonc">>
      raw == d.disk[wranglerPath]
      before == SelectSeq(raw, LAMBDA t : t # "//")
      merged == IF "cnf" \in SeqToSet(before) THEN before
                ELSE Append(before, "cnf")
  IN  IF before = merged THEN [d |-> d, status |-> "skipped"]
      ELSE IF "//" \in SeqToSet(raw) /\ ~opts.force /\ ~opts.yes /\ ~ok
        THEN [d |-> d, status |-> "skipped"]
      ELSE [d |-> IF ~opts.dryRun
                        THEN writeFileIfChanged(d, wranglerPath, merged)
                        ELSE d, status |->
                      "updated"]

\* part_001:351-386 for the entry resolveEntryFile (405-427) finds: main of
\* wrangler.jsonc, here src/index.ts, else src/index.ts if it exists
ensureEntryExportsDo(d, opts) ==
  LET entryAbs == <<"src", "index.ts">>
      exportLine == "export { NodejsFnContainer }"
      main == "main" \in SeqToSet(d.disk[<<"wrangler.jsonc">>])
      d1 == ensureDir(d, <<"src">>)
      beforeExists == entryAbs \in DOMAIN d1.disk
      content == d1.disk[entryAbs]
      next == IF Len(content) >= 2 /\ content[Len(content)] = ""
                THEN SubSeq(content, 1, Len(content) - 1)
                       \o <<exportLine, "">>
                ELSE content \o <<exportLine, "">>
  IN  IF ~main /\ entryAbs \notin DOMAIN d.disk
        THEN [d |-> d, status |-> "skipped"]
      ELSE IF beforeExists
        THEN IF exportLine \in SeqToSet(content)
               THEN [d |-> d1, status |-> "skipped"]
               ELSE [d |-> IF ~opts.dryRun
                                 THEN writeFileIfChanged(d1, entryAbs, next)
                                 ELSE d1, status |->
                               "updated"]
      ELSE [d |-> IF ~opts.dryRun
                        THEN writeFileIfChanged(d1, entryAbs,
                                                <<exportLine, "">>)
                        ELSE d1, status |->
                      "created"]

\* runInit (part_001:121-178): the next of its five steps; it returns before
\* the first one when there is no wrangler.jsonc
RunInitStep(answer) ==
  /\ <<"wrangler.jsonc">> \in DOMAIN disk
  /\ Len(runs) < 5
  /\ initOpts.yes => ~answer
  /\ LET d == GenState(disk, writes, FALSE)
         r == CASE Len(runs) = 0 ->
                     ensureDockerfileFromImagePath(d, initOpts, answer)
                [] Len(runs) = 1 -> updateGitignore(d, initOpts)
                [] Len(runs) = 2 -> ensureGeneratedDir(d, initOpts)
                [] Len(runs) = 3 ->
                     writeWranglerJsoncForExistingProject(d, initOpts, answer)
                [] OTHER -> ensureEntryExportsDo(d, initOpts)
     IN  /\ disk' = r.d.disk
         /\ writes' = r.d.writes
         /\ runs' = Append(runs, r.status)
  /\ UNCHANGED <<pluginVars, mods, pkgJson, external, proxyVars, initOpts>>

\* the project directories the command is run in (a file is only there
\* when its directory is) and the options it is run with
InitCli ==
  /\ PluginInit
  /\ autoRebuildContainers
  /\ docker = "generated"
  /\ mods = <<>>
  /\ pkgJson = <<>>
  /\ external = <<>>
  /\ LET NoFile == <<"<none>">>
         Dir == <<"<dir>">>
         WithFile(m, path, text) ==
           IF text = NoFile THEN m ELSE MapSet(m, path, text)
     IN  \E c \in [wrangler : {NoFile, <<>>, <<"main">>, <<"//", "main">>,
                               <<"main", "cnf">>},
                   gitignore : {NoFile, <<"node_modules">>,
                                <<"node_modules", "", "">>,
                                <<"src/__generated__", "">>},
                   dockerDir : {NoFile, Dir},
                   dockerfile : {NoFile, DockerfileText, <<"FROM alpine", "">>},
                   srcDir : {NoFile, Dir},
                   generatedDir : {NoFile, Dir},
                   entry : {NoFile, <<"export default app", "">>,
                            <<"export default app">>,
                            <<"export { NodejsFnContainer }", "">>}] :
           /\ c.dockerDir = NoFile => c.dockerfile = NoFile
           /\ c.srcDir = NoFile =>
                (c.generatedDir = NoFile /\ c.entry = NoFile)
           /\ disk =
                WithFile(WithFile(WithFile(WithFile(WithFile(WithFile(WithFile(
                  <<>>,
                  <<"wrangler.jsonc">>, c.wrangler),
                  <<".gitignore">>, c.gitignore),
                  <<".create-nodejs-fn">>, c.dockerDir),
                  <<".create-nodejs-fn", "Dockerfile">>, c.dockerfile),
                  <<"src">>, c.srcDir),
                  <<"src", "__generated__">>, c.generatedDir),
                  <<"src", "index.ts">>, c.entry)
  /\ writes = {}
  /\ runs = <<>>
  /\ calls = <<>>
  /\ rpcs = <<>>
  /\ initOpts \in [dryRun : BOOLEAN, force : BOOLEAN, yes : BOOLEAN]

SpecCli == InitCli /\ [][\E answer \in BOOLEAN : RunInitStep(answer)]_vars

\* C24: with --dry-run no step of the init command writes or modifies a
\* file or creates a directory.
C24_DryRunLeavesFs == [][initOpts.dryRun => disk' = disk]_vars


(* ======================= no-op cycles ================================== *)
GeneratorSteps ==
  {"generate", "packDev", "bundleDev", "packBuild", "bundleBuild"}

\* C25: a cycle that starts after a cycle has completed, whose request is
\* not forced and whose refresh reports nothing dirty, ends in that step
\* without a generator or the packager having run and without a proxy file
\* written.
C25_NoOpCycle ==
  [][(HasMicrotask /\ cbs[NextCb].type = "regen"
        /\ cbs[NextCb].after \notin rejected) =>
       LET cb == cbs[NextCb] IN
       (generatedOnce /\ ~cb.force /\ ~StartedRefreshDirty(cb.id)) =>
         /\ last'.id = cb.id
         /\ last'.steps \cap GeneratorSteps = {}
         /\ proxyFiles' = proxyFiles
         /\ generatedOnce']_vars

\* the second cycle was a no-op that followed a watcher event
C25_Witness ==
  /\ last.id = 2
  /\ last.outcome = "noop"
  /\ last.steps = {"refresh"}
  /\ nEvents >= 1
  /\ PathA \in DOMAIN proxyFiles


(* ======================= debounce timers =============================== *)
\* C26: the armed timers are exactly the ones the two handle variables name:
\* at most one regeneration debounce timer and at most one restart debounce
\* timer, so a timer that was replaced is no longer armed and cannot fire.
C26_OneTimerPerKind ==
  /\ ServeTimers(timers) =
       IF serveDebounceTimer = 0 THEN {}
       ELSE {Timer(serveDebounceTimer, "serve")}
  /\ RestartTimers(timers) =
       IF restartTimer = 0 THEN {} ELSE {Timer(restartTimer, "restart")}

\* a second event re-armed the debounce timer before it fired
C26_Witness ==
  /\ nEvents = 2
  /\ nextId = 1
  /\ serveDebounceTimer # 0
  /\ Cardinality(timers) = 1


\* C27: when the regeneration debounce timer fires, a restart timer is armed
\* if automatic rebuild is on, the command is serve, a dev server is attached
\* and no restart is in flight; if one of these is false, no restart timer
\* is armed and the restart timer and its handle stay as they were.
C27_RestartArming ==
  [][DebounceFires =>
       IF /\ autoRebuildContainers
          /\ config = "serve"
          /\ devServer
          /\ ~restartingDevServer
         THEN /\ restartTimer' # 0
              /\ RestartTimers(timers') = {Timer(restartTimer', "restart")}
         ELSE /\ restartTimer' = restartTimer
              /\ RestartTimers(timers') = RestartTimers(timers)]_vars

\* the debounce timer fired while a restart was in flight: the second
\* request is queued and no restart timer was armed
C27_Witness ==
  /\ restartingDevServer
  /\ restartInFlight = 1
  /\ timers = {}
  /\ nEvents = 2
  /\ \E i \in Queued : cbs[i].id = 2 /\ cbs[i].kind = "serve"


(* ======================= the module cache ============================== *)
\* C28: every descriptor in the module cache has at least one export.
C28_CachedHaveExports ==
  \A p \in DOMAIN moduleCache : Len(moduleCache[p].exports) >= 1

\* a watched file without qualifying exports went through a refresh and is
\* not in the cache, next to a module that is
C28_Witness ==
  /\ generatedOnce
  /\ fs[PathB] = Source(<<>>, 0)
  /\ PathB \in SeqToSet(containerFiles)
  /\ PathB \notin DOMAIN moduleCache
  /\ PathA \in DOMAIN moduleCache
  /\ last.id = 2
  /\ Quiescent
  /\ evChanged = {}


(* ======================= completions =================================== *)
\* C29: the completion of a request settles only when the cycles of that
\* request and of every earlier request have ended, it is never rejected,
\* and a hook awaiting it resumes on a fulfilled promise and returns
\* normally, also when the cycle failed.
C29_CompletionSettles ==
  /\ [](/\ rejected = {}
        /\ hookFailed = {}
        /\ \A k \in Finished : \A i \in RegenCbs : cbs[i].id > k)
  /\ [][\A i \in 1..Len(cbs) :
          \A hook \in {"buildStart", "closeBundle", "resolveId"} :
            HookResumes(i, hook) => cbs[i].after \in fulfilled]_vars

\* two requests enqueued by hooks, the second cycle failed, and both hooks
\* have returned
C29_Witness ==
  /\ nEvents = 0
  /\ last.id = 2
  /\ last.outcome = "failed"
  /\ fulfilled = {1, 2}
  /\ cbs = <<>>
  /\ hookFailed = {}

(* ======================= the dirty flag of a refresh ==================== *)
\* a refresh that read all its targets, and so returned
RefreshReturns ==
  /\ HasMicrotask
  /\ cbs[NextCb].type = "regen"
  /\ cbs[NextCb].after \notin rejected
  /\ LET cb == cbs[NextCb]
         targets == IF Len(cb.changed) > 0 THEN NormSet(cb.changed)
                    ELSE SeqToSet(containerFiles')
     IN  \A p \in targets : fs[p].state # "broken"

\* C30 as stated: a refresh returns true if and only if the cached
\* descriptors after the call differ from those before it, so that a
\* removed path without a cached descriptor does not make it dirty.
C30_DirtyIffCacheChanged ==
  [][RefreshReturns =>
       (StartedRefreshDirty(cbs[NextCb].id) <=> moduleCache' # moduleCache)]_vars

\* C30: a refresh returns true if and only if it changed the cached
\* descriptors or was given at least one removed path, cached or not.
C30_DirtyIffChangedOrRemoved ==
  [][RefreshReturns =>
       (StartedRefreshDirty(cbs[NextCb].id) <=>
          \/ moduleCache' # moduleCache
          \/ Len(cbs[NextCb].removed) > 0)]_vars

\* a refresh of PathA with PathB removed returned dirty and went on to
\* generate, although PathB was not cached (it never had a proxy) and
\* PathA's descriptor is the one of its unrevised source
C30_Witness ==
  \E i \in Running :
    /\ cbs[i].id = 2
    /\ cbs[i].changed = <<PathA>>
    /\ cbs[i].removed = <<PathB>>
    /\ cbs[i].refreshDirty
    /\ PathB \notin DOMAIN proxyFiles
    /\ fs[PathA] = Source(<<ExportF>>, 0)
    /\ DOMAIN moduleCache = {PathA}


(* ======================= restarts and no-op cycles ===================== *)
\* a request enqueued by a fire of the regeneration debounce timer: the
\* hooks pass no delta (buildStart, closeBundle) or a forced one (resolveId)
FromDebounce(cb) ==
  /\ cb.type = "regen"
  /\ ~cb.force
  /\ Len(cb.changed) + Len(cb.removed) > 0

\* C31 as stated: a debounce fire whose cycle is a no-op has armed no
\* restart timer and leads to no restart -- when the cycle of the latest
\* request, enqueued by a debounce fire, ends as a no-op and no restart was
\* ever started, no restart timer is armed and no restart continuation is
\* waiting.
C31_NoRestartForNoOp ==
  [][(/\ HasMicrotask
      /\ FromDebounce(cbs[NextCb])
      /\ cbs[NextCb].id = nextId - 1
      /\ restartCalls = 0
      /\ last'.id = cbs[NextCb].id
      /\ last'.outcome = "noop") =>
       /\ RestartTimers(timers) = {}
       /\ \A i \in 1..Len(cbs) : cbs[i].type # "restart"]_vars

\* C31: a restart timer is armed only by a fire of the regeneration debounce
\* timer, under the four conditions on the state at the fire and whatever
\* the cycle it enqueued will find; a restart() call starts only with
\* auto-rebuild on, in serve mode with a dev server, and after every request
\* enqueued before the restart timer fired has finished, no-op or not.
C31_RestartScheduling ==
  /\ [][RestartTimers(timers') \ RestartTimers(timers) # {} =>
          /\ DebounceFires
          /\ autoRebuildContainers
          /\ config = "serve"
          /\ devServer
          /\ ~restartingDevServer]_vars
  /\ [][restartCalls' > restartCalls =>
          /\ autoRebuildContainers /\ config = "serve" /\ devServer
          /\ cbs[NextCb].seen >= 1
          /\ \A k \in 1..cbs[NextCb].seen : k \in Finished]_vars

\* resolveId enqueued the first request and a debounce fire the second;
\* the second cycle was a no-op and a restart was started after it
C31_Witness ==
  /\ resolveReturn # NoReturn
  /\ nEvents = 1
  /\ nextId = 3
  /\ last.id = 2
  /\ last.outcome = "noop"
  /\ restartCalls = 1
  /\ cbs = <<>>


(* ======================= a restart for every fire ====================== *)
\* request k, enqueued by a fire of the regeneration debounce timer, is
\* queued or running
DebounceRequest(k) ==
  \E i \in RegenCbs : cbs[i].id = k /\ FromDebounce(cbs[i])

\* C32: with auto-rebuild on, in serve mode with a dev server, every request
\* enqueued by a debounce fire is eventually followed by a restart() call
\* that starts when the cycle of that request has finished: whatever the
\* number of restarts started while the request is queued or running, one
\* more is started after its cycle has ended.
C32_EveryFireRestarted ==
  \A k \in 1..MaxRequests : \A n \in 0..MaxRequests :
    (/\ autoRebuildContainers /\ config = "serve" /\ devServer
     /\ DebounceRequest(k)
     /\ restartCalls = n) ~> (k \in Finished /\ restartCalls > n)


(* ======================= restart and cycles ============================ *)
\* C33: while a restart() call is in flight, no regeneration cycle is
\* executing, a cycle suspended on the bundler included.
C33_RestartExcludesCycle == restartInFlight > 0 => Running = {}


(* ======================= a failed cycle and the next one =============== *)
\* a dev session at rest after its first cycle completed: the cache and the
\* proxy files are those of the files on disk, the chain is a fulfilled
\* promise, and the requests are numbered from here
InitRetry ==
  /\ config = "serve"
  /\ devServer = TRUE
  /\ autoRebuildContainers = FALSE
  /\ docker = "generated"
  /\ restartTimer = 0
  /\ serveDebounceTimer = 0
  /\ timers = {}
  /\ restartingDevServer = FALSE
  /\ pendingChanged = <<>>
  /\ pendingRemoved = <<>>
  /\ pendingForce = FALSE
  /\ pendingReason = <<>>
  /\ fs \in [ContainerPaths -> Contents \ {Broken}]
  /\ containerFiles = GlobSync(fs)
  /\ moduleCache =
       [p \in {q \in ContainerPaths : extractExports(fs[q]) # <<>>} |->
          Descriptor(p, extractExports(fs[p]))]
  /\ proxyFiles = generateProxyFiles(<<>>, moduleCache)
  /\ generatedOnce = TRUE
  /\ cbs = <<>>
  /\ regenQueue = 0
  /\ fulfilled = {}
  /\ rejected = {}
  /\ nextId = 1
  /\ restartInFlight = 0
  /\ restartCalls = 0
  /\ errorLog = {}
  /\ last = [id |-> 0, kind |-> "serve", outcome |-> "ok",
             steps |-> {"discover", "refresh", "generate", "packDev",
                        "bundleDev"},
             first |-> TRUE, refreshDirty |-> TRUE]
  /\ evChanged = {}
  /\ evRemoved = {}
  /\ nEvents = 0
  /\ hookFailed = {}
  /\ resolveReturn = NoReturn
  /\ AuxInit

NextRetry ==
  \/ BuildStart
  \/ \E raw \in RawPaths, c \in Contents : FileEvent(raw, c)
  \/ \E t \in timers : ServeDebounceFire(t)
  \/ StartCycle
  \/ \E i \in 1..Len(cbs), ok \in BOOLEAN : EsbuildSettles(i, ok)
  \/ HookResume

SpecRetry == InitRetry /\ [][NextRetry]_vars

\* C34: when the cycle that ended last had a dirty refresh and failed in
\* generation or packaging, the next cycle whose refresh returns runs the
\* generators again, whatever its delta is.
C34_DirtyRetried ==
  [][(/\ RefreshReturns
      /\ last.outcome = "failed"
      /\ last.refreshDirty
      /\ "generate" \in last.steps) =>
       \/ last'.id = cbs[NextCb].id /\ "generate" \in last'.steps
       \/ \E i \in Running' : "generate" \in cbs'[i].steps]_vars


(* ======================= the bundled server ============================ *)
\* C35: after every packaging step that returned without error, the bundle
\* of the generated entry module is in that step's output directory, with a
\* generated Dockerfile and with a custom one.
C35_BundleProduced ==
  \A k \in 1..Len(runs) :
    \A base \in {"dev"} \cup (IF runs[k] = "build" THEN {"dist"} ELSE {}) :
      /\ <<base, "server.mjs">> \in DOMAIN disk
      /\ disk[<<base, "server.mjs">>] = Bundle(EntryText(mods))


(* ======================= cache and known files ========================= *)
\* C36: in every reachable state each path that has a descriptor in the
\* module cache is a member of the known container files.
C36_CacheWithinKnownFiles ==
  DOMAIN moduleCache \subseteq SeqToSet(containerFiles)


(* ======================= proxy files and the cache ===================== *)
\* C37: when a regeneration cycle completes successfully, the modules that
\* have a proxy file are exactly the modules that have a descriptor in the
\* module cache.
C37_ProxiesMatchCache ==
  [][(last' # last /\ last'.outcome = "ok") =>
       DOMAIN proxyFiles' = DOMAIN moduleCache']_vars


(* ======================= the returned proxy path ======================= *)
\* C38: whenever resolveId returns the proxy path of a container module,
\* the proxy file of that module exists, and it was generated from the
\* descriptor the module has in the cache.
C38_ReturnedProxyExists ==
  [][ResolveIdReturns =>
       LET p == Normalize(resolveReturn'.id) IN
       /\ p \in DOMAIN proxyFiles'
       /\ p \in DOMAIN moduleCache' => proxyFiles'[p] = moduleCache'[p]]_vars


(* ======================= the wrangler.jsonc merge ====================== *)
\* The parsed wrangler.jsonc: keys is the order of its top-level keys (the
\* order JSON.stringify lists them in), containers, bindings (of
\* durable_objects) and migrations are its arrays, <<>> when the key is
\* absent. A container or binding keeps its other keys in rest. A tag is a
\* sequence of characters, <<>> for a migration without (or with an empty)
\* tag; a migration's class lists are <<>> when absent.
\* length of the drawn migration lists
MaxMigrations == 2
\* runs of the init command on one project
MaxInitRuns == 2

DigitChars == <<"0", "1", "2", "3", "4", "5", "6", "7", "8", "9">>

RECURSIVE ParseNat(_)
\* Number(m[1]) for a string of decimal digits
ParseNat(ds) ==
  IF ds = <<>> THEN 0
  ELSE LET d == CHOOSE v \in 0..9 : DigitChars[v + 1] = ds[Len(ds)]
       IN  10 * ParseNat(SubSeq(ds, 1, Len(ds) - 1)) + d

RECURSIVE FormatNat(_)
\* `${n}` for a natural number: its decimal digits, no leading zero
FormatNat(n) ==
  IF n < 10 THEN <<DigitChars[n + 1]>>
  ELSE FormatNat(n \div 10) \o <<DigitChars[(n % 10) + 1]>>

\* the first candidate is returned, taken or not
NextFree_NoLoop(prefix, n0, tags) == n0

\* part_001:456-457 and 462-463: while (tags.has(`${prefix}${n}`)) n++
NextFree(prefix, n0, tags) ==
  CHOOSE n \in n0..(n0 + Cardinality(tags)) :
    /\ prefix \o FormatNat(n) \notin tags
    /\ \A m \in n0..(n - 1) : prefix \o FormatNat(m) \in tags

\* part_001:449-465
nextMigrationTag(migrations) ==
  LET tags == {migrations[i].tag : i \in DOMAIN migrations} \ {<<>>}
      lastTag == IF migrations # <<>> THEN migrations[Len(migrations)].tag
                 ELSE <<>>
      \* lastTag.match(/^v(\d+)$/)
      m == /\ Len(lastTag) >= 2
           /\ lastTag[1] = "v"
           /\ \A i \in 2..Len(lastTag) : lastTag[i] \in SeqToSet(DigitChars)
  IN  IF m
        THEN <<"v">> \o FormatNat(NextFree(<<"v">>, ParseNat(Tail(lastTag)) + 1,
                                           tags))
      ELSE IF migrations # <<>>
        THEN <<"c", "n", "f">> \o FormatNat(NextFree(<<"c", "n", "f">>, 1, tags))
      ELSE <<"v", "1">>

\* part_001:434-439 on a path given as its segments, "./" and "/" being
\* the leading segment of a relative and of an absolute path
normalizePathLike(input) ==
  IF input = <<>> THEN input
  ELSE IF Head(input) \in {"./", "/"} THEN input
  ELSE <<"./">> \o input

\* only new_classes is looked at
AlreadyDeclared_NewClassesOnly(migrations, className) ==
  \E i \in DOMAIN migrations : className \in SeqToSet(migrations[i].new_classes)

\* part_001:333-340: some migration declares the class
AlreadyDeclared(migrations, className) ==
  \/ \E i \in DOMAIN migrations :
       className \in SeqToSet(migrations[i].new_sqlite_classes)
  \/ \E i \in DOMAIN migrations :
       className \in SeqToSet(migrations[i].new_classes)

\* part_001:293-349
mergeWranglerConfigExisting(base, params) ==
  LET \* findIndex: the first match, 0 for none
      Find(s, T(_)) ==
        IF \E i \in DOMAIN s : T(s[i])
          THEN CHOOSE i \in DOMAIN s : T(s[i]) /\ \A j \in 1..(i - 1) : ~T(s[j])
          ELSE 0
      IsClass(c) == c.class_name = params.className
      IsBinding(b) == b.name = params.binding
      idx == Find(base.containers, IsClass)
      bidx == Find(base.bindings, IsBinding)
      image == normalizePathLike(params.image)
      cnts ==
        IF idx > 0
          THEN [base.containers EXCEPT ![idx] =
                  [class_name |-> params.className, image |-> image,
                   max_instances |-> params.maxInstances, rest |-> @.rest]]
          ELSE Append(base.containers,
                      [class_name |-> params.className, image |-> image,
                       max_instances |-> params.maxInstances, rest |-> <<>>])
      bindings ==
        IF bidx > 0
          THEN [base.bindings EXCEPT ![bidx] =
                  [name |-> params.binding, class_name |-> params.className,
                   rest |-> @.rest]]
          ELSE Append(base.bindings,
                      [name |-> params.binding, class_name |-> params.className,
                       rest |-> <<>>])
      migrations ==
        IF AlreadyDeclared(base.migrations, params.className)
          THEN base.migrations
          ELSE Append(base.migrations,
                      [tag |-> nextMigrationTag(base.migrations),
                       new_sqlite_classes |-> <<params.className>>,
                       new_classes |-> <<>>])
  IN  [keys |-> SetAddAll(base.keys,
                          <<"containers", "durable_objects", "migrations">>),
       containers |-> cnts, bindings |-> bindings,
       migrations |-> migrations]

\* writeWranglerJsoncForExistingProject (part_001:259-291) on the parsed
\* file, which has no comments: the two JSON texts are equal exactly when
\* the configurations are, key order included
MergeRun ==
  /\ Len(runs) < MaxInitRuns
  /\ LET wranglerPath == <<"wrangler.jsonc">>
         before == disk[wranglerPath]
         merged == mergeWranglerConfigExisting(before, initOpts)
     IN  IF before = merged
           THEN /\ runs' = Append(runs, "skipped")
                /\ UNCHANGED <<disk, writes>>
           ELSE /\ runs' = Append(runs, "updated")
                /\ IF initOpts.dryRun THEN UNCHANGED <<disk, writes>>
                   ELSE /\ disk' = [disk EXCEPT ![wranglerPath] = merged]
                        /\ writes' = writes \cup {wranglerPath}
  /\ UNCHANGED <<pluginVars, mods, pkgJson, external, proxyVars, initOpts>>

\* existing projects: any order of the top-level keys that are there, the
\* class or the binding configured already or not, and migrations tagged
\* vN, otherwise or not at all
InitMerge ==
  /\ PluginInit
  /\ autoRebuildContainers
  /\ docker = "generated"
  /\ mods = <<>>
  /\ pkgJson = <<>>
  /\ external = <<>>
  /\ writes = {}
  /\ runs = <<>>
  /\ calls = <<>>
  /\ rpcs = <<>>
  /\ \E dryRun \in BOOLEAN,
        image \in {<<"./", ".create-nodejs-fn", "Dockerfile">>,
                   <<".create-nodejs-fn", "Dockerfile">>} :
       initOpts = [dryRun |-> dryRun, force |-> FALSE, yes |-> TRUE,
                   className |-> "NodejsFnContainer", binding |-> "NODEJS_FN",
                   image |-> image, maxInstances |-> 10]
  /\ LET Other == [class_name |-> "Other", image |-> <<"./", "other">>,
                   max_instances |-> 1, rest |-> <<>>]
         Mine == [class_name |-> "NodejsFnContainer",
                  image |-> <<"./", "old", "Dockerfile">>,
                  max_instances |-> 2, rest |-> <<"instance_type">>]
         Tags == {<<>>, <<"v", "1">>, <<"v", "2">>, <<"v", "9">>,
                  <<"v", "0", "2">>, <<"c", "n", "f", "1">>, <<"x">>}
         Migrations ==
           [tag : Tags,
            new_sqlite_classes : {<<>>, <<"NodejsFnContainer">>},
            new_classes : {<<>>}]
           \cup [tag : Tags, new_sqlite_classes : {<<>>},
                 new_classes : {<<"Other", "NodejsFnContainer">>}]
     IN  \E cnts \in {<<>>, <<Other>>, <<Mine>>, <<Other, Mine>>},
            bindings \in {<<>>,
                          <<[name |-> "NODEJS_FN", class_name |-> "Other",
                             rest |-> <<>>]>>,
                          <<[name |-> "KV", class_name |-> "Other",
                             rest |-> <<"script_name">>]>>},
            migrations \in UNION {[1..n -> Migrations] : n \in 0..MaxMigrations},
            first \in BOOLEAN :
           disk = [p \in {<<"wrangler.jsonc">>} |->
                     [keys |->
                        (IF first /\ migrations # <<>>
                           THEN <<"migrations">> ELSE <<>>)
                        \o <<"name", "main">>
                        \o (IF cnts # <<>> THEN <<"containers">>
                            ELSE <<>>)
                        \o (IF bindings # <<>> THEN <<"durable_objects">>
                            ELSE <<>>)
                        \o (IF ~first /\ migrations # <<>>
                              THEN <<"migrations">> ELSE <<>>),
                      containers |-> cnts, bindings |-> bindings,
                      migrations |-> migrations]]

SpecMerge == InitMerge /\ [][MergeRun]_vars

\* C39: merging a configuration that is the result of the merge, with the
\* same parameters, returns it unchanged, and a run of the init command on
\* a project that an earlier run has written reports wrangler.jsonc as
\* skipped and leaves it as it is.
C39_MergeIdempotent ==
  /\ [](LET once == mergeWranglerConfigExisting(disk[<<"wrangler.jsonc">>],
                                                initOpts)
        IN  mergeWranglerConfigExisting(once, initOpts) = once)
  /\ [][(Len(runs) >= 1 /\ ~initOpts.dryRun) =>
          /\ runs'[Len(runs')] = "skipped"
          /\ disk' = disk]_vars

\* the first run added the container, the binding and a migration to a
\* project that had migrations of its own, the second run skipped the file
C39_Witness ==
  /\ runs = <<"updated", "skipped">>
  /\ writes = {<<"wrangler.jsonc">>}
  /\ LET cfg == disk[<<"wrangler.jsonc">>] IN
     /\ Len(cfg.containers) = 2
     /\ Len(cfg.bindings) = 2
     /\ Len(cfg.migrations) = MaxMigrations + 1
     /\ cfg.migrations[Len(cfg.migrations)].new_sqlite_classes
          = <<"NodejsFnContainer">>


(* ======================= migration tags ================================ *)
\* the tags of a list of migrations, of those that have one
TagsOf(migrations) == {migrations[i].tag : i \in DOMAIN migrations} \ {<<>>}

\* C40: for the migrations of every project, nextMigrationTag returns a
\* non-empty tag that no migration of the list has, and a migration that a
\* run of the init command appends has a tag no earlier migration has.
C40_FreshTag ==
  /\ [](LET migrations == disk[<<"wrangler.jsonc">>].migrations
            tag == nextMigrationTag(migrations)
        IN  tag # <<>> /\ \A i \in DOMAIN migrations : migrations[i].tag # tag)
  /\ [][LET before == disk[<<"wrangler.jsonc">>].migrations
            after == disk'[<<"wrangler.jsonc">>].migrations
        IN  Len(after) > Len(before) =>
              /\ Len(after) = Len(before) + 1
              /\ after[Len(after)].tag \notin TagsOf(before)]_vars

\* the last migration was tagged v1 and v2 was taken by an earlier one: the
\* appended migration is tagged v3
C40_Witness ==
  LET migrations == disk[<<"wrangler.jsonc">>].migrations IN
  /\ runs = <<"updated">>
  /\ Len(migrations) = 3
  /\ migrations[1].tag = <<"v", "2">>
  /\ migrations[2].tag = <<"v", "1">>
  /\ migrations[3].tag = <<"v", "3">>

====
